---- MODULE Spec2Model ----
(***************************************************************************)
(* Real-time session coordination of the webinar platform:                 *)
(* src/socket/socketHandler.js (SocketHandler) over the shared Redis store *)
(* and the Webinar document of src/unnamed/part_001.                       *)
(*                                                                         *)
(* Every async handler is cut at its awaits.  One action is the in-memory  *)
(* code from one await to the next together with the store command that    *)
(* code sends: a command takes effect when it is sent (the commands of one *)
(* Redis client are executed in the order sent), and the handler resumes   *)
(* with its answer in a later action.  A task is a suspended handler, its  *)
(* step names the command whose answer it awaits.                          *)
(***************************************************************************)
EXTENDS Bags, FiniteSets, Integers, Naturals, Sequences, TLC

\* ---------------------------------------------------------------- bounds
MaxInflight == 2        \* handlers suspended at an await, all sockets together
MaxJoinRace == 3        \* the same, in the join-room scenario
MaxEvents == 3          \* join-room, leave-room and update events received in all
MaxClock == 1           \* the clock (new Date()) takes the values 0..MaxClock
MaxParticipants == 2    \* webinar.maxParticipants of the room (schema minimum)
MaxSignals == 3         \* signaling events the clients emit in all

\* ------------------------------------------------------------ the universe
Users == {"u1", "u2", "u3"}
Sockets == {"s1", "s2", "s3", "s4"}
\* the account each connection's token names: u2 connects twice
UserOf == [s \in Sockets |-> CASE s = "s1" -> "u1" [] s = "s2" -> "u2"
                                [] s = "s3" -> "u3" [] s = "s4" -> "u2"]
Rooms == {"r1", "r2"}
\* the roomIds the clients name in all but the two-room scenario: "r0" is a
\* roomId no webinar has
RoomIds == {"r1", "r0"}
HostOf == [r \in Rooms |-> "u1"]      \* webinar.host
NoRoom == "none"
NoUser == "none"

\* User.role: the host account u1 and u3 are admins, u2 is a student
UserRole(u) == IF u \in {"u1", "u3"} THEN "admin" ELSE "student"

\* webinar.isPublic, schema default
isPublic(r) == TRUE

VARIABLES
  connected,     \* socket -> "new" | "open" | "closed" | "lost"
  user,          \* socket -> socket.user._id (NoUser before authentication)
  currentRoom,   \* socket -> socket.currentRoom
  subscribed,    \* socket -> rooms the socket has socket.join()ed
  presence,      \* room -> members of the Redis set room:<id>:presence
  status,        \* room -> webinar.status
  participants,  \* room -> webinar.participants of the stored document
  tasks,         \* bag of handlers suspended at an await
  reply,         \* socket -> last answer to a join-room of that socket
  now,           \* the clock
  events,        \* number of client events received so far
  hist,          \* user -> where the user stands in join-then-leave (history)
  ratelimit,     \* <<user, action>> -> the Redis key ratelimit:<user>:<action>
  rlOut,         \* socket -> the last answer of isRateLimited for the socket
  rlHist,        \* user -> the sender's sends in the running window (history)
  relayed,       \* the last signaling envelope relayed and who received it
  wire,          \* socket -> signaling events the client has emitted, in order
  inbox,         \* socket -> signaling envelopes delivered to the client, in order
  res,           \* user -> the last start or end request answered and its answer
  actualStartTime,  \* room -> webinar.actualStartTime
  actualEndTime,    \* room -> webinar.actualEndTime
  cred,          \* socket -> the credential of the handshake (history)
  cmd,           \* the last mute-participant or remove-participant and its emits
  partLeft,      \* socket -> participant-left broadcasts of its handlers so far
  chat,          \* room -> the Redis list room:<id>:chat, head first
  posted,        \* room -> the messages pushed, in the order pushed (history)
  said,          \* the last send-message handler that ended, and its emits
  allowChat,     \* room -> webinar.settings.allowChat
  currentParticipant,  \* the process-wide currentParticipant of server.js
  currentWebinar,      \* the process-wide currentWebinar of server.js
  webinars,      \* webinarId -> the Webinar object of the webinars Map
  participantMap \* userId -> the Participant object of the participants Map

\* the in-memory state of the server of server.js
inmem == <<currentParticipant, currentWebinar, webinars, participantMap>>

vars == <<connected, user, currentRoom, subscribed, presence, status,
          participants, tasks, reply, now, events, hist, ratelimit, rlOut,
          rlHist, relayed, wire, inbox, res, actualStartTime, actualEndTime,
          cred, cmd, partLeft, chat, posted, said, allowChat, inmem>>

chatlog == <<chat, posted, said, allowChat>>
signal == <<wire, inbox>>
lifecycle == <<res, actualStartTime, actualEndTime>>
\* what the chat and signaling actions leave alone besides the session
rest == <<signal, lifecycle, cred, cmd, partLeft>>
\* the state of chat, signaling and lifecycle, which the session actions
\* leave alone
quiet == <<ratelimit, rlOut, rlHist, relayed, signal, lifecycle, chatlog, inmem>>
others == <<quiet, cred, cmd, partLeft>>

\* ------------------------------------------------------- presence records
\* The member of the presence set: JSON.stringify of the object of
\* handleJoinRoom.  Two members are the same string iff all fields agree.
PresenceRecord(u, s, role, t, a, v, sc, h) ==
  [userId |-> u, socketId |-> s, role |-> role, joinedAt |-> t,
   audioEnabled |-> a, videoEnabled |-> v, screenSharing |-> sc,
   handRaised |-> h]

NoRec == PresenceRecord(NoUser, "none", "none", 0, FALSE, FALSE, FALSE, FALSE)

getUserRoleInWebinar(u, r) == IF HostOf[r] = u THEN "host" ELSE "attendee"

RecordsOf(members, u) == {p \in members : p.userId = u}

\* participants.find(p => JSON.parse(p).userId === userId.toString()):
\* the first match in the order SMEMBERS returns, which Redis does not fix,
\* so any matching member can be the one found.
FindCandidates(members, u) ==
  IF RecordsOf(members, u) = {} THEN {NoRec} ELSE RecordsOf(members, u)

getRoomParticipants(r) == presence[r]

\* ------------------------------------------- the webinar's participants
NoTime == -1
\* an entry of webinar.participants; leftAt and duration are NoTime until
\* the entry is closed
ParticipantEntry(u, t) ==
  [user |-> u, joinedAt |-> t, leftAt |-> NoTime, duration |-> NoTime]

\* the indices of the entries of u without leftAt
OpenEntries(doc, u) ==
  {i \in DOMAIN doc : doc[i].user = u /\ doc[i].leftAt = NoTime}

\* participants.find(p => p.user === userId && !p.leftAt): the first such
\* index, 0 when there is none
FindOpen(doc, u) ==
  IF OpenEntries(doc, u) = {} THEN 0
  ELSE CHOOSE i \in OpenEntries(doc, u) : \A j \in OpenEntries(doc, u) : i <= j

\* leftAt = new Date(), duration = floor((leftAt - joinedAt) / 1000), the
\* clock counting seconds
CloseEntry(e, t) == [e EXCEPT !.leftAt = t, !.duration = t - e.joinedAt]

\* webinarSchema.methods.addParticipant
addParticipant(doc, u, t) ==
  IF FindOpen(doc, u) # 0 THEN doc ELSE Append(doc, ParticipantEntry(u, t))

\* webinarSchema.methods.removeParticipant
removeParticipant(doc, u, t) ==
  IF FindOpen(doc, u) = 0 THEN doc
  ELSE [doc EXCEPT ![FindOpen(doc, u)] = CloseEntry(@, t)]

\* document.save() of a document read as `read` and changed to `changed`,
\* over the stored array.  Mongoose sends the modified paths: an entry set
\* by its index is written at that index and the write is refused
\* (VersionError) when a push has changed the stored array since the read.
SaveConflicts(stored, read, changed) ==
  /\ \E i \in DOMAIN read : changed[i] # read[i]
  /\ Len(stored) # Len(read)

Saved(stored, read, changed) ==
  [i \in DOMAIN stored |->
     IF i \in DOMAIN read /\ changed[i] # read[i] THEN changed[i]
     ELSE stored[i]]

\* a signaling event on the wire: seq numbers the events in the order the
\* clients emitted them (history)
NoEvent == [kind |-> "none", target |-> NoUser, seq |-> 0]

\* ------------------------------------------------------------------ tasks
\* seen: the member find returned; put: the member to add; n: the answer
\* of sCard; doc: webinar.participants of the document findOne returned.
\* env: the signaling event a relay handler is handling; req: req.user.id
\* of a start or end request and st: webinar.status of the document it
\* read; ev: the event of an update handler.
\* present and counted are history: the participant had a
\* member when the update's sRem ran; the leave came after a completed join;
\* the send is the k-th of its sender's window, and no command of the
\* sender's checks had failed in that window when it was sent (clean).
Task(kind, s, r, step) ==
  [kind |-> kind, sock |-> s, room |-> r, step |-> step,
   seen |-> NoRec, put |-> NoRec, n |-> 0, doc |-> <<>>, env |-> NoEvent,
   req |-> NoUser, st |-> "none", ev |-> "none",
   present |-> FALSE, counted |-> FALSE, k |-> 0, clean |-> FALSE,
   data |-> [has |-> "nodata", message |-> <<>>]]

Inflight == BagCardinality(tasks)
Spawn(t) == tasks (+) SetToBag({t})
Finish(t) == tasks (-) SetToBag({t})
Move(t, t2) == (tasks (-) SetToBag({t})) (+) SetToBag({t2})
TasksAt(kinds, step) ==
  {t \in BagToSet(tasks) : t.kind \in kinds /\ t.step = step}
JoinsOf(u) ==
  {t \in BagToSet(tasks) : t.kind = "join" /\ user[t.sock] = u}

\* --------------------------------------------------- rate-limit counters
RateActions == {"chat", "reaction"}

\* a key that leaves the action out: one counter for each user
RateLimitKeyOfUser(userId, action) == <<userId, "chat">>

\* RATE_LIMIT_KEY(userId, action): `ratelimit:${userId}:${action}`
RATE_LIMIT_KEY(userId, action) == <<userId, action>>
NoTTL == -1
\* a key that does not exist: INCR makes it 1
NoKey == [count |-> 0, expireAt |-> NoTTL]
\* limited: the answer; failed: a store command of the check threw; k and
\* clean: those of the task (history)
NoAnswer == [limited |-> FALSE, failed |-> FALSE, k |-> 0, clean |-> FALSE]
\* k: sends of the running window; start: when its expiry was armed (NoTTL
\* before); fault: a command of a check of this sender has failed in this
\* window; refused: the sender has been answered "limited" before; granted:
\* the sends that were counted on the sender's key and let through;
\* grants: the times at which the sends let through in the last
\* ChatWindowSeconds were counted
NoSends == [k |-> 0, start |-> NoTTL, fault |-> FALSE, refused |-> FALSE,
            granted |-> 0, grants |-> <<>>]

\* ------------------------------------------------- start, end requests
\* kind: "start" or "end"; answer: what the route answered
NoRes == [kind |-> "none", answer |-> "none"]

\* participant-left broadcasts for one connection, by the handler that
\* called leaveRoom: handleLeaveRoom, handleDisconnect
NoneLeft == [leave |-> 0, disconnect |-> 0]

\* ------------------------------------------------------- send-message
NoSaid == [by |-> "none", room |-> NoRoom,
           data |-> [has |-> "nodata", message |-> <<>>], err |-> "none",
           to |-> {}, stored |-> FALSE, threw |-> "none"]

\* ---------------------------------------------------- host commands
\* The emits of one step of a handler of mute-participant,
\* remove-participant or start-screen-share.  by: the requesting socket;
\* err: the sockets sent an error event; toTarget: those sent force-mute or
\* removed-from-room; toRoom: those sent participant-audio-changed or
\* screen-share-started
NoCmd == [kind |-> "none", by |-> "none", room |-> NoRoom, target |-> NoUser,
          err |-> {}, toTarget |-> {}, toRoom |-> {}]

\* ------------------------------------------------------------ signaling
SignalKinds == {"offer", "answer", "ice-candidate"}
\* sender ids a client can put in its payload
ClaimedIds == {"u1", "u3"}
\* fromUserId: the sender id of the envelope delivered; recipients: the
\* sockets it was delivered to; notFound: the sender was told the target
\* was not found.  History: present, the target had a presence record of an
\* open connection when the envelope was relayed; absent, it had no record
NoRelay == [kind |-> "none", from |-> "none", to |-> NoUser,
            claimed |-> NoUser, fromUserId |-> NoUser, recipients |-> {},
            notFound |-> FALSE, present |-> FALSE, absent |-> FALSE]

\* ------------------------------------------------------------ handshake
\* What a handshake carries and what it meets.  token: socket.handshake
\* carries none, one jwt.verify throws on, or one it decodes; account: what
\* User.findById answers for the decoded userId: null, a user with isActive
\* false, an active user, or it throws
NoHandshake == [token |-> "none", account |-> "none"]
ValidHandshake == [token |-> "signed", account |-> "active"]
Handshakes ==
  {[token |-> "missing", account |-> "none"],
   [token |-> "forged", account |-> "none"]}
  \cup [token : {"signed"}, account : {"unknown", "inactive", "active", "throws"}]

\* a middleware that does not look at user.isActive
authenticateAnyAccount(h) ==
  /\ h.token = "signed"
  /\ h.account \in {"inactive", "active"}

\* authenticateSocket calls next() without an error
authenticateSocket(h) ==
  IF h.token = "missing" THEN FALSE
  ELSE IF h.token # "signed" THEN FALSE
  ELSE IF h.account = "throws" THEN FALSE
  ELSE IF h.account = "unknown" \/ h.account # "active" THEN FALSE
  ELSE TRUE

\* ------------------------------------- the in-memory server of server.js
\* currentParticipant and currentWebinar are declared with let inside the
\* try block of the connection callback, so the handlers, which are outside
\* that block, do not see the declarations: in a CommonJS module an
\* assignment to the name creates one variable of the whole process, and a
\* read before any assignment throws a ReferenceError
Undeclared == "undeclared"

\* no entry in the participants Map
NoParticipant ==
  [id |-> NoUser, socketId |-> "none", isAudioEnabled |-> FALSE,
   currentWebinar |-> NoRoom]

\* new Participant(id, name, socketId, role)
Participant(id, socketId) ==
  [id |-> id, socketId |-> socketId, isAudioEnabled |-> TRUE,
   currentWebinar |-> NoRoom]

\* new Webinar(id, title, hostId, maxParticipants)
Webinar == [participants |-> {}]

\* the state of the module after it is loaded, with the webinars in the Map
ServerStarted ==
  /\ currentParticipant = Undeclared
  /\ currentWebinar = Undeclared
  /\ webinars = [r \in Rooms |-> Webinar]
  /\ participantMap = [u \in Users |-> NoParticipant]

Init ==
  /\ connected = [s \in Sockets |-> "new"]
  /\ user = [s \in Sockets |-> NoUser]
  /\ currentRoom = [s \in Sockets |-> NoRoom]
  /\ subscribed = [s \in Sockets |-> {}]
  /\ presence = [r \in Rooms |-> {}]
  /\ status = [r \in Rooms |-> "scheduled"]
  /\ participants = [r \in Rooms |-> <<>>]
  /\ tasks = EmptyBag
  /\ reply = [s \in Sockets |-> "none"]
  /\ now = 0
  /\ events = 0
  /\ hist = [u \in Users |-> "idle"]
  /\ ratelimit = [k \in Users \X RateActions |-> NoKey]
  /\ rlOut = [s \in Sockets |-> NoAnswer]
  /\ rlHist = [u \in Users |-> NoSends]
  /\ relayed = NoRelay
  /\ wire = [s \in Sockets |-> <<>>]
  /\ inbox = [s \in Sockets |-> <<>>]
  /\ res = [u \in Users |-> NoRes]
  /\ actualStartTime = [r \in Rooms |-> NoTime]
  /\ actualEndTime = [r \in Rooms |-> NoTime]
  /\ cred = [s \in Sockets |-> NoHandshake]
  /\ cmd = NoCmd
  /\ partLeft = [s \in Sockets |-> NoneLeft]
  /\ chat = [r \in Rooms |-> <<>>]
  /\ posted = [r \in Rooms |-> <<>>]
  /\ said = NoSaid
  /\ allowChat = [r \in Rooms |-> TRUE]
  /\ ServerStarted

\* A client connects with handshake h.  When authenticateSocket passes,
\* handleConnection sets socket.user and registers the handlers; otherwise
\* socket.io refuses the connection and handleConnection is not called.
Connect(s, h) ==
  /\ connected[s] = "new"
  /\ cred' = [cred EXCEPT ![s] = h]
  /\ IF authenticateSocket(h)
       THEN /\ connected' = [connected EXCEPT ![s] = "open"]
            /\ user' = [user EXCEPT ![s] = UserOf[s]]
       ELSE /\ connected' = [connected EXCEPT ![s] = "closed"]
            /\ UNCHANGED user
  /\ UNCHANGED <<currentRoom, subscribed, presence, status, participants,
                 tasks, reply, now, events, hist, quiet, cmd, partLeft>>

Tick ==
  /\ now < MaxClock
  /\ now' = now + 1
  /\ UNCHANGED <<connected, user, currentRoom, subscribed, presence, status,
                 participants, tasks, reply, events, hist, others>>

\* ------------------------------------------------------------ join-room
\* handleJoinRoom from the event to the sending of redis.sCard: the
\* webinar lookup, the permission checks
JoinRoom(s, r, lim) ==
  /\ connected[s] = "open"
  /\ Inflight < lim
  /\ events < MaxEvents
  /\ events' = events + 1
  /\ LET u == user[s] IN
     IF r \notin Rooms
       THEN /\ reply' = [reply EXCEPT ![s] = "Webinar not found"]
            /\ UNCHANGED <<tasks, hist>>
     ELSE IF UserRole(u) = "student" /\ ~isPublic(r)
       THEN /\ reply' = [reply EXCEPT ![s] = "Access denied"]
            /\ UNCHANGED <<tasks, hist>>
     ELSE IF UserRole(u) = "student" /\ status[r] # "live"
       THEN /\ reply' = [reply EXCEPT ![s] = "Webinar is not live"]
            /\ UNCHANGED <<tasks, hist>>
     ELSE /\ tasks' = Spawn([Task("join", s, r, "sCard") EXCEPT
                               !.doc = participants[r],
                               !.n = Cardinality(presence[r])])
          /\ hist' = [hist EXCEPT ![u] = "joining"]
          /\ UNCHANGED reply
  /\ UNCHANGED <<connected, user, currentRoom, subscribed, presence, status,
                 participants, now, others>>

\* join-room with no payload object: the destructuring throws inside the
\* try of handleJoinRoom, whose catch answers the error event
JoinWithoutPayload(s) ==
  /\ connected[s] = "open"
  /\ events < MaxEvents
  /\ events' = events + 1
  /\ reply' = [reply EXCEPT ![s] = "Failed to join room"]
  /\ UNCHANGED <<connected, user, currentRoom, subscribed, presence, status,
                 participants, tasks, now, hist, others>>

\* the capacity check on the answer of sCard
RoomIsFull(n, max) == n >= max

\* sCard answered: the capacity check, socket.join, currentRoom, redis.sAdd
JoinAfterSCard(t) ==
  /\ t \in TasksAt({"join"}, "sCard")
  /\ LET s == t.sock
         r == t.room
         u == user[s]
     IN IF RoomIsFull(t.n, MaxParticipants)
          THEN /\ reply' = [reply EXCEPT ![s] = "Room is full"]
               /\ tasks' = Finish(t)
               /\ UNCHANGED <<subscribed, currentRoom, presence>>
          ELSE /\ subscribed' = [subscribed EXCEPT ![s] = @ \cup {r}]
               /\ currentRoom' = [currentRoom EXCEPT ![s] = r]
               /\ presence' = [presence EXCEPT ![r] = @ \cup
                    {PresenceRecord(u, s, getUserRoleInWebinar(u, r), now,
                                    FALSE, FALSE, FALSE, FALSE)}]
               /\ tasks' = Move(t, [t EXCEPT !.step = "sAdd"])
               /\ UNCHANGED reply
  /\ UNCHANGED <<connected, user, status, participants, now, events, hist, others>>

\* sAdd answered: webinar.addParticipant on the document findOne read,
\* webinar.save: an entry addParticipant pushed is pushed onto the stored
\* array
JoinAfterSAdd(t) ==
  /\ t \in TasksAt({"join"}, "sAdd")
  /\ participants' =
       IF addParticipant(t.doc, user[t.sock], now) = t.doc THEN participants
       ELSE [participants EXCEPT ![t.room] =
               Append(@, ParticipantEntry(user[t.sock], now))]
  /\ tasks' = Move(t, [t EXCEPT !.step = "save"])
  /\ UNCHANGED <<connected, user, currentRoom, subscribed, presence, status,
                 reply, now, events, hist, others>>

\* save answered: getRoomParticipants sends redis.sMembers
JoinAfterSave(t) ==
  /\ t \in TasksAt({"join"}, "save")
  /\ tasks' = Move(t, [t EXCEPT !.step = "sMembers"])
  /\ UNCHANGED <<connected, user, currentRoom, subscribed, presence, status,
                 participants, reply, now, events, hist, others>>

\* sMembers answered: participant-joined to the room, room-joined to the
\* socket
JoinAfterSMembers(t) ==
  /\ t \in TasksAt({"join"}, "sMembers")
  /\ reply' = [reply EXCEPT ![t.sock] = "room-joined"]
  /\ hist' = [hist EXCEPT ![user[t.sock]] =
                IF @ = "joining" /\ JoinsOf(user[t.sock]) = {t}
                                 /\ CopiesIn(t, tasks) = 1
                  THEN "joined" ELSE @]
  /\ tasks' = Finish(t)
  /\ UNCHANGED <<connected, user, currentRoom, subscribed, presence, status,
                 participants, now, events, others>>

handleJoinRoom(lim) ==
  \/ \E s \in Sockets, r \in RoomIds : JoinRoom(s, r, lim)
  \/ \E t \in BagToSet(tasks) :
       \/ JoinAfterSCard(t)
       \/ JoinAfterSAdd(t)
       \/ JoinAfterSave(t)
       \/ JoinAfterSMembers(t)

\* The catch of handleJoinRoom: a command the handler awaits throws, the
\* error event "Failed to join room" is emitted and the handler ends.
JoinCaught(t) ==
  /\ reply' = [reply EXCEPT ![t.sock] = "Failed to join room"]
  /\ hist' = [hist EXCEPT ![user[t.sock]] =
                IF @ = "joining" /\ JoinsOf(user[t.sock]) = {t}
                                 /\ CopiesIn(t, tasks) = 1
                  THEN "idle" ELSE @]
  /\ tasks' = Finish(t)

\* join-room whose Webinar.findOne throws, or whose redis.sCard throws after
\* the permission checks: nothing has been changed when the catch runs
JoinRoomThrows(s, r, lim) ==
  /\ connected[s] = "open"
  /\ Inflight < lim
  /\ events < MaxEvents
  /\ events' = events + 1
  /\ reply' = [reply EXCEPT ![s] = "Failed to join room"]
  /\ UNCHANGED <<connected, user, currentRoom, subscribed, presence, status,
                 participants, tasks, now, hist, others>>

\* sCard answered and the room is not full: socket.join, currentRoom, and
\* redis.sAdd throws
JoinSAddThrows(t) ==
  /\ t \in TasksAt({"join"}, "sCard")
  /\ ~RoomIsFull(t.n, MaxParticipants)
  /\ subscribed' = [subscribed EXCEPT ![t.sock] = @ \cup {t.room}]
  /\ currentRoom' = [currentRoom EXCEPT ![t.sock] = t.room]
  /\ JoinCaught(t)
  /\ UNCHANGED <<connected, user, presence, status, participants, now, events,
                 others>>

\* sAdd answered: webinar.addParticipant, and webinar.save throws
JoinSaveThrows(t) ==
  /\ t \in TasksAt({"join"}, "sAdd")
  /\ JoinCaught(t)
  /\ UNCHANGED <<connected, user, currentRoom, subscribed, presence, status,
                 participants, now, events, others>>

\* what a join-room that does not join answers
JoinErrors ==
  {"Webinar not found", "Access denied", "Webinar is not live", "Room is full",
   "Failed to join room"}

\* ------------------------------------------------- leave-room, disconnect
\* leaveRoom(socket, roomId) from its call to the sending of
\* redis.sMembers; kind is "leave" (handleLeaveRoom) or "disconnect"
LeaveRoom(s, kind) ==
  /\ currentRoom[s] # NoRoom
  /\ Inflight < MaxInflight
  /\ \E p \in FindCandidates(presence[currentRoom[s]], user[s]) :
       tasks' = Spawn([Task(kind, s, currentRoom[s], "sMembers") EXCEPT
                         !.seen = p, !.counted = (hist[user[s]] = "joined")])
  /\ hist' = [hist EXCEPT ![user[s]] = IF @ = "joined" THEN "leaving" ELSE @]

handleLeaveRoom(s) ==
  /\ connected[s] = "open"
  /\ events < MaxEvents
  /\ events' = events + 1
  /\ LeaveRoom(s, "leave")
  /\ UNCHANGED <<connected, user, currentRoom, subscribed, presence, status,
                 participants, reply, now, others>>

\* the socket closes; handleDisconnect calls leaveRoom when the socket has a
\* current room
handleDisconnect(s) ==
  /\ connected[s] = "open"
  /\ connected' = [connected EXCEPT ![s] = "closed"]
  /\ IF currentRoom[s] # NoRoom
       THEN LeaveRoom(s, "disconnect")
       ELSE UNCHANGED <<tasks, hist>>
  /\ UNCHANGED <<user, currentRoom, subscribed, presence, status, participants,
                 reply, now, events, others>>

\* The process serving the connection exits (process.exit on an uncaught
\* exception or unhandled rejection, or the master killing the worker): the
\* connection is gone, its suspended handlers with it, and no disconnect
\* handler runs.  Nothing in the store changes.
processExit(s) ==
  /\ connected[s] = "open"
  /\ connected' = [connected EXCEPT ![s] = "lost"]
  /\ tasks' = [t \in {x \in DOMAIN tasks : x.sock # s} |-> tasks[t]]
  /\ UNCHANGED <<user, currentRoom, subscribed, presence, status, participants,
                 reply, now, events, hist, others>>

\* Webinar.findOne is sent; ok: the database answers it.  When it throws,
\* the catch of leaveRoom ends the handler.
FindOneSent(t, ok) ==
  IF ok THEN Move(t, [t EXCEPT !.step = "findOne",
                               !.doc = participants[t.room]])
  ELSE Finish(t)

\* sMembers answered: redis.sRem of the member found, if one was found;
\* otherwise Webinar.findOne
LeaveAfterSMembers(t, ok) ==
  /\ t \in TasksAt({"leave", "disconnect"}, "sMembers")
  /\ IF t.seen # NoRec
       THEN /\ ok
            /\ presence' = [presence EXCEPT ![t.room] = @ \ {t.seen}]
            /\ tasks' = Move(t, [t EXCEPT !.step = "sRem"])
       ELSE /\ tasks' = FindOneSent(t, ok)
            /\ UNCHANGED presence
  /\ UNCHANGED <<connected, user, currentRoom, subscribed, status, participants,
                 reply, now, events, hist, others>>

\* sRem answered: Webinar.findOne
LeaveAfterSRem(t, ok) ==
  /\ t \in TasksAt({"leave", "disconnect"}, "sRem")
  /\ tasks' = FindOneSent(t, ok)
  /\ UNCHANGED <<connected, user, currentRoom, subscribed, presence, status,
                 participants, reply, now, events, hist, others>>

\* findOne answered: webinar.removeParticipant, webinar.save; ok: the
\* database executes the save.  When save throws, the catch of leaveRoom
\* ends the handler.
LeaveAfterFindOne(t, ok) ==
  /\ t \in TasksAt({"leave", "disconnect"}, "findOne")
  /\ LET changed == removeParticipant(t.doc, user[t.sock], now)
         stored == participants[t.room]
     IN IF ok /\ ~SaveConflicts(stored, t.doc, changed)
          THEN /\ participants' = [participants EXCEPT ![t.room] =
                                     Saved(stored, t.doc, changed)]
               /\ tasks' = Move(t, [t EXCEPT !.step = "save"])
          ELSE /\ tasks' = Finish(t)
               /\ UNCHANGED participants
  /\ UNCHANGED <<connected, user, currentRoom, subscribed, presence, status,
                 reply, now, events, hist, others>>

\* save answered: socket.leave, currentRoom = null, participant-left to the
\* room
LeaveAfterSave(t) ==
  /\ t \in TasksAt({"leave", "disconnect"}, "save")
  /\ subscribed' = [subscribed EXCEPT ![t.sock] = @ \ {t.room}]
  /\ currentRoom' = [currentRoom EXCEPT ![t.sock] = NoRoom]
  /\ hist' = [hist EXCEPT ![user[t.sock]] =
                IF @ = "leaving" /\ t.counted THEN "left" ELSE @]
  /\ partLeft' = [partLeft EXCEPT ![t.sock][t.kind] = @ + 1]
  /\ tasks' = Finish(t)
  /\ UNCHANGED <<connected, user, presence, status, participants, reply, now,
                 events, quiet, cred, cmd>>

\* oks: {TRUE} when the database answers every call, BOOLEAN when a call
\* can throw
leaveRoom(oks) ==
  \E t \in BagToSet(tasks) :
    \/ \E ok \in oks : LeaveAfterSMembers(t, ok)
    \/ \E ok \in oks : LeaveAfterSRem(t, ok)
    \/ \E ok \in oks : LeaveAfterFindOne(t, ok)
    \/ LeaveAfterSave(t)

\* ------------------------------------------------------ presence updates
\* The events that end in updateParticipantState
UpdateKinds == {"toggle-audio", "toggle-video", "start-screen-share",
                "stop-screen-share", "raise-hand", "lower-hand",
                "mute-participant"}

\* Object.assign(participant, updates) with the updates of the event
Merge(p, kind, val) ==
  CASE kind = "toggle-audio"       -> [p EXCEPT !.audioEnabled = val]
    [] kind = "toggle-video"       -> [p EXCEPT !.videoEnabled = val]
    [] kind = "start-screen-share" -> [p EXCEPT !.screenSharing = TRUE]
    [] kind = "stop-screen-share"  -> [p EXCEPT !.screenSharing = FALSE]
    [] kind = "raise-hand"         -> [p EXCEPT !.handRaised = TRUE]
    [] kind = "lower-hand"         -> [p EXCEPT !.handRaised = FALSE]
    [] kind = "mute-participant"   -> [p EXCEPT !.audioEnabled = FALSE]

\* webinar.settings.allowScreenShare: the schema default in r1, set by the
\* host when r2 was created
allowScreenShare(r) == r = "r2"

\* a handler that lets every participant through
PermittedAnyone(kind, s, r) == TRUE

\* what the handler of the event checks before updateParticipantState
Permitted(kind, s, r) ==
  CASE kind = "start-screen-share" ->
         getUserRoleInWebinar(user[s], r) = "host" \/ allowScreenShare(r)
    [] kind \in {"mute-participant", "remove-participant"} ->
         HostOf[r] = user[s]
    [] OTHER -> TRUE

\* io.to(`user:${userId}`): the open sockets of the user
UserRoom(target) ==
  {x \in Sockets : connected[x] = "open" /\ user[x] = target}

\* socket.to(roomId): the open sockets that have joined the room, the
\* sender's own excepted
RoomExcept(r, s) ==
  {x \in Sockets : connected[x] = "open" /\ r \in subscribed[x] /\ x # s}

\* the events whose emits are recorded
CmdKinds == {"mute-participant", "start-screen-share"}

\* the emits of the handler of a host command or of start-screen-share
\* before its first store command: the error to the requester, or
\* force-mute / removed-from-room to the target
CmdEmits(kind, s, r, target) ==
  [kind |-> kind, by |-> s, room |-> r, target |-> target,
   err |-> IF Permitted(kind, s, r) THEN {} ELSE {s},
   toTarget |-> IF Permitted(kind, s, r) /\ kind # "start-screen-share"
                  THEN UserRoom(target) ELSE {},
   toRoom |-> {}]

\* participant-audio-changed, which handleMuteParticipant emits to the room
\* when updateParticipantState has returned, and screen-share-started of
\* handleStartScreenShare
AfterUpdateEmits(t) ==
  IF t.ev \in CmdKinds
    THEN [kind |-> t.ev, by |-> t.sock, room |-> t.room, target |-> t.req,
          err |-> {}, toTarget |-> {}, toRoom |-> RoomExcept(t.room, t.sock)]
    ELSE cmd

\* the handler of the event, from the event to the sending of redis.sMembers
\* by updateParticipantState; target is the userId of the payload of
\* mute-participant, the socket's own user for the other events
UpdateEvent(s, kind, val, target) ==
  /\ connected[s] = "open"
  /\ currentRoom[s] # NoRoom
  /\ Inflight < MaxInflight
  /\ events < MaxEvents
  /\ events' = events + 1
  /\ kind = "mute-participant" \/ target = user[s]
  /\ kind \in {"toggle-audio", "toggle-video"} \/ val = FALSE
  /\ LET r == currentRoom[s] IN
     /\ IF ~Permitted(kind, s, r)
          THEN UNCHANGED tasks
          ELSE \E p \in FindCandidates(presence[r], target) :
                 tasks' = Spawn([Task("update", s, r, "sMembers") EXCEPT
                                   !.seen = p, !.put = Merge(p, kind, val),
                                   !.ev = kind, !.req = target])
     /\ cmd' = IF kind \in CmdKinds
                 THEN CmdEmits(kind, s, r, target) ELSE cmd
  /\ UNCHANGED <<connected, user, currentRoom, subscribed, presence, status,
                 participants, reply, now, hist, quiet, cred, partLeft>>

\* if (userParticipant): whether the update writes at all
UpdateApplies(seen) == seen # NoRec

\* sMembers answered: when a member was found, redis.sRem of it
UpdateAfterSMembers(t) ==
  /\ t \in TasksAt({"update"}, "sMembers")
  /\ IF UpdateApplies(t.seen)
       THEN /\ presence' = [presence EXCEPT ![t.room] = @ \ {t.seen}]
            /\ tasks' = Move(t, [t EXCEPT !.step = "sRem",
                 !.present = (RecordsOf(presence[t.room], t.seen.userId) # {})])
            /\ UNCHANGED cmd
       ELSE /\ tasks' = Finish(t)
            /\ cmd' = AfterUpdateEmits(t)
            /\ UNCHANGED presence
  /\ UNCHANGED <<connected, user, currentRoom, subscribed, status, participants,
                 reply, now, events, hist, quiet, cred, partLeft>>

\* sRem answered: redis.sAdd of the merged member; the handler's emit to
\* the room follows
UpdateAfterSRem(t) ==
  /\ t \in TasksAt({"update"}, "sRem")
  /\ presence' = [presence EXCEPT ![t.room] = @ \cup {t.put}]
  /\ cmd' = AfterUpdateEmits(t)
  /\ tasks' = Finish(t)
  /\ UNCHANGED <<connected, user, currentRoom, subscribed, status, participants,
                 reply, now, events, hist, quiet, cred, partLeft>>

\* handleRemoveParticipant from the event to the sending of Webinar.findOne
RemoveParticipant(s, target) ==
  /\ connected[s] = "open"
  /\ currentRoom[s] # NoRoom
  /\ Inflight < MaxInflight
  /\ events < MaxEvents
  /\ events' = events + 1
  /\ tasks' = Spawn([Task("remove", s, currentRoom[s], "findOne") EXCEPT
                       !.ev = "remove-participant", !.req = target])
  /\ UNCHANGED <<connected, user, currentRoom, subscribed, presence, status,
                 participants, reply, now, hist, others>>

\* findOne answered: the host check, the error or removed-from-room
RemoveAfterFindOne(t) ==
  /\ t \in TasksAt({"remove"}, "findOne")
  /\ cmd' = CmdEmits(t.ev, t.sock, t.room, t.req)
  /\ tasks' = Finish(t)
  /\ UNCHANGED <<connected, user, currentRoom, subscribed, presence, status,
                 participants, reply, now, events, hist, quiet, cred,
                 partLeft>>

handleRemoveParticipant ==
  \/ \E s \in Sockets, target \in Users : RemoveParticipant(s, target)
  \/ \E t \in BagToSet(tasks) : RemoveAfterFindOne(t)

\* handleMuteParticipant, with the updateParticipantState it calls
handleMuteParticipant ==
  \/ \E s \in Sockets, target \in Users :
       UpdateEvent(s, "mute-participant", FALSE, target)
  \/ \E t \in BagToSet(tasks) : UpdateAfterSMembers(t) \/ UpdateAfterSRem(t)

updateParticipantState ==
  \/ \E s \in Sockets, kind \in UpdateKinds, val \in BOOLEAN, target \in Users :
       UpdateEvent(s, kind, val, target)
  \/ \E t \in BagToSet(tasks) : UpdateAfterSMembers(t) \/ UpdateAfterSRem(t)

\* ---------------------------------------------------- webinar lifecycle
\* POST /:id/start and POST /:id/end of routes/webinars.js.  The answers:
\* "NotFound" 404, "Forbidden" 403, "InvalidState" 400, "Error" 500,
\* "Started" and "Ended" 200.
Request(kind, u, r) ==
  /\ Inflight < MaxInflight
  /\ events < MaxEvents
  /\ events' = events + 1
  /\ IF r \notin Rooms
       THEN /\ res' = [res EXCEPT ![u] =
                              [kind |-> kind, answer |-> "NotFound"]]
            /\ UNCHANGED tasks
       ELSE /\ tasks' = Spawn([Task(kind, "none", r, "findById") EXCEPT
                                 !.req = u, !.st = status[r],
                                 !.doc = participants[r]])
            /\ UNCHANGED res
  /\ UNCHANGED <<connected, user, currentRoom, subscribed, presence, status,
                 participants, reply, now, hist, ratelimit, rlOut, rlHist,
                 relayed, signal, actualStartTime, actualEndTime, cred, cmd,
                 partLeft,
                 chatlog, inmem>>

\* the checks without the comparison with webinar.host
StartCheckAnyone(req, host, st) ==
  IF st # "scheduled" THEN "InvalidState" ELSE "ok"

\* the checks of POST /:id/start on the document read
StartCheck(req, host, st) ==
  IF host # req THEN "Forbidden"
  ELSE IF st # "scheduled" THEN "InvalidState"
  ELSE "ok"

\* findById answered: the checks, webinar.startWebinar() (status,
\* actualStartTime, save)
StartAfterFindById(t) ==
  /\ t \in TasksAt({"start"}, "findById")
  /\ LET c == StartCheck(t.req, HostOf[t.room], t.st)
     IN IF c # "ok"
          THEN /\ res' = [res EXCEPT ![t.req] =
                                 [kind |-> t.kind, answer |-> c]]
               /\ tasks' = Finish(t)
               /\ UNCHANGED <<status, actualStartTime>>
          ELSE /\ status' = [status EXCEPT ![t.room] = "live"]
               /\ actualStartTime' = [actualStartTime EXCEPT ![t.room] = now]
               /\ tasks' = Move(t, [t EXCEPT !.step = "save"])
               /\ UNCHANGED res
  /\ UNCHANGED <<connected, user, currentRoom, subscribed, presence,
                 participants, reply, now, events, hist, ratelimit, rlOut,
                 rlHist, relayed, signal, actualEndTime, cred, cmd, partLeft,
                 chatlog, inmem>>

\* save and populate answered: res.json
AfterSave(t, answer) ==
  /\ res' = [res EXCEPT ![t.req] = [kind |-> t.kind, answer |-> answer]]
  /\ tasks' = Finish(t)
  /\ UNCHANGED <<connected, user, currentRoom, subscribed, presence, status,
                 participants, reply, now, events, hist, ratelimit, rlOut,
                 rlHist, relayed, signal, actualStartTime, actualEndTime,
                 cred, cmd, partLeft,
                 chatlog, inmem>>

StartAfterSave(t) ==
  /\ t \in TasksAt({"start"}, "save")
  /\ AfterSave(t, "Started")

StartWebinar ==
  \/ \E u \in Users, r \in RoomIds : Request("start", u, r)
  \/ \E t \in BagToSet(tasks) : StartAfterFindById(t) \/ StartAfterSave(t)

\* the checks without the comparison of webinar.status
EndCheckAnyState(req, host, st) ==
  IF host # req THEN "Forbidden" ELSE "ok"

\* the checks of POST /:id/end on the document read
EndCheck(req, host, st) ==
  IF host # req THEN "Forbidden"
  ELSE IF st # "live" THEN "InvalidState"
  ELSE "ok"

\* webinarSchema.methods.endWebinar on the entries: each entry without
\* leftAt gets leftAt and duration
endWebinar(doc, t) ==
  [i \in DOMAIN doc |->
     IF doc[i].leftAt = NoTime THEN CloseEntry(doc[i], t) ELSE doc[i]]

\* findById answered: the checks, webinar.endWebinar() (status,
\* actualEndTime, the entries, save); a save that is refused is answered
\* by the catch
EndAfterFindById(t) ==
  /\ t \in TasksAt({"end"}, "findById")
  /\ LET c == EndCheck(t.req, HostOf[t.room], t.st)
         changed == endWebinar(t.doc, now)
         stored == participants[t.room]
     IN IF c # "ok"
          THEN /\ res' = [res EXCEPT ![t.req] =
                                 [kind |-> t.kind, answer |-> c]]
               /\ tasks' = Finish(t)
               /\ UNCHANGED <<status, actualEndTime, participants>>
          ELSE IF SaveConflicts(stored, t.doc, changed)
            THEN /\ res' = [res EXCEPT ![t.req] =
                                   [kind |-> t.kind, answer |-> "Error"]]
                 /\ tasks' = Finish(t)
                 /\ UNCHANGED <<status, actualEndTime, participants>>
            ELSE /\ status' = [status EXCEPT ![t.room] = "ended"]
                 /\ actualEndTime' = [actualEndTime EXCEPT ![t.room] = now]
                 /\ participants' = [participants EXCEPT ![t.room] =
                                       Saved(stored, t.doc, changed)]
                 /\ tasks' = Move(t, [t EXCEPT !.step = "save"])
                 /\ UNCHANGED res
  /\ UNCHANGED <<connected, user, currentRoom, subscribed, presence, reply,
                 now, events, hist, ratelimit, rlOut, rlHist, relayed, signal,
                 actualStartTime, cred, cmd, partLeft,
                 chatlog, inmem>>

EndAfterSave(t) ==
  /\ t \in TasksAt({"end"}, "save")
  /\ AfterSave(t, "Ended")

EndWebinar ==
  \/ \E u \in Users, r \in RoomIds : Request("end", u, r)
  \/ \E t \in BagToSet(tasks) : EndAfterFindById(t) \/ EndAfterSave(t)

\* ------------------------------------------------------- send-message
ChatMaxRequests == 10       \* isRateLimited(userId, 'chat', 10, 60)
ChatWindowSeconds == 60
SleepSeconds == 60          \* the clock of the chat scenario moves in such steps
MaxSeconds == 60            \* and stops here
MaxSends == 12              \* send-message events received in all

\* the comparison off by one: the request that reaches the limit is refused
OverLimitInclusive(current, maxRequests) == current >= maxRequests

\* the comparison off by one the other way: one request more is let through
OverLimitLenient(current, maxRequests) == current > maxRequests + 1

\* return current > maxRequests
OverLimit(current, maxRequests) == current > maxRequests

\* a catch that refuses when Redis fails
LimitedOnFailureClosed == TRUE

\* the catch of isRateLimited: "Allow if Redis fails"
LimitedOnFailure == FALSE

\* the sender's window: a send after the window has elapsed opens a new one
Sent(h, t) ==
  IF h.start # NoTTL /\ t >= h.start + ChatWindowSeconds
    THEN [h EXCEPT !.k = 1, !.start = NoTTL, !.fault = FALSE]
    ELSE [h EXCEPT !.k = @ + 1]

\* the send counted at t is let through; the grants that no span of
\* ChatWindowSeconds shares with it are forgotten
Granted(h, t) ==
  [h EXCEPT !.granted = @ + 1,
            !.grants = Append(SelectSeq(@, LAMBDA x : x > t - ChatWindowSeconds),
                              t)]

\* ------------------------------------------------- the chat message
\* The payload of a send-message event.  has: "message", the payload has a
\* string message; "nomessage", a payload object without one; "nodata", no
\* payload object.  message: the string, a sequence of characters
Payload(has, m) == [has |-> has, message |-> m]
Message(m) == Payload("message", m)
NoMessage == Payload("nomessage", <<>>)
NoData == Payload("nodata", <<>>)

IsSpace(c) == c = " "

\* String.prototype.trim: the string without its leading and trailing
\* white space
RECURSIVE trim(_)
trim(m) ==
  IF m = <<>> THEN m
  ELSE IF IsSpace(Head(m)) THEN trim(Tail(m))
  ELSE IF IsSpace(m[Len(m)]) THEN trim(SubSeq(m, 1, Len(m) - 1))
  ELSE m

\* the chatMessage of handleSendMessage
ChatMessage(s, m, t) == [userId |-> user[s], message |-> trim(m), timestamp |-> t]

\* redis.lPush(key, x): x becomes the head of the list
lPush(l, x) == <<x>> \o l

Min(a, b) == IF a <= b THEN a ELSE b

\* redis.lRange(key, start, stop) for 0 <= start: the elements at the
\* indices start..stop, counted from 0
lRange(l, start, stop) == SubSeq(l, start + 1, Min(stop + 1, Len(l)))

\* lTrim(key, 0, 99)
ChatTrimStop == 99

\* a trim that keeps the tail of the list
lTrimTail(l, start, stop) ==
  SubSeq(l, Len(l) - Min(stop + 1, Len(l)) + 1, Len(l))

\* redis.lTrim(key, start, stop): the list keeps what lRange answers
lTrim(l, start, stop) == lRange(l, start, stop)

\* Array.prototype.reverse
reverse(l) == [i \in 1..Len(l) |-> l[Len(l) + 1 - i]]

\* a getChatHistory that hands out what lRange returned
getChatHistoryAsStored(r, limit) == lRange(chat[r], 0, limit - 1)

\* getChatHistory(roomId, limit)
getChatHistory(r, limit) == reverse(lRange(chat[r], 0, limit - 1))

\* io.emit: every open socket
AllOpen(r) == {x \in Sockets : connected[x] = "open"}

\* io.to(roomId): the open sockets that have joined the room
RoomOf(r) == {x \in Sockets : connected[x] = "open" /\ r \in subscribed[x]}

\* The end of a send-message handler.  err: the error event sent to the
\* sender; to: the sockets sent new-message; stored: the handler pushed its
\* message onto the list; threw: the call of the handler that threw
Ended(t, err, to, stored, threw) ==
  [by |-> t.sock, room |-> t.room, data |-> t.data, err |-> err, to |-> to,
   stored |-> stored, threw |-> threw]

\* the catch of handleSendMessage
Caught(t, stored, threw) ==
  Ended(t, "Failed to send message", {}, stored, threw)

\* handleSendMessage from the event to the sending of redis.incr by
\* isRateLimited; data: the payload; ok: the store executes the command.
\* When incr throws, isRateLimited answers false and Webinar.findOne is sent.
SendMessage(s, data, ok) ==
  /\ connected[s] = "open"
  /\ currentRoom[s] # NoRoom
  /\ Inflight < MaxInflight
  /\ events < MaxSends
  /\ events' = events + 1
  /\ LET u == user[s]
         key == RATE_LIMIT_KEY(u, "chat")
         h == Sent(rlHist[u], now)
         t == [Task("send", s, currentRoom[s], "incr") EXCEPT !.data = data]
     IN IF data.has = "nodata"
          THEN /\ said' = Caught(t, FALSE, "payload")
               /\ UNCHANGED <<ratelimit, tasks, rlHist, rlOut>>
        ELSE IF ok
          THEN /\ ratelimit' = [ratelimit EXCEPT ![key].count = @ + 1]
               /\ tasks' = Spawn([t EXCEPT !.n = ratelimit[key].count + 1,
                                           !.k = h.k, !.clean = ~h.fault])
               /\ rlHist' = [rlHist EXCEPT ![u] =
                    IF OverLimit(ratelimit[key].count + 1, ChatMaxRequests)
                      THEN h ELSE Granted(h, now)]
               /\ UNCHANGED <<rlOut, said>>
          ELSE /\ rlOut' = [rlOut EXCEPT ![s] =
                    [limited |-> LimitedOnFailure, failed |-> TRUE,
                     k |-> h.k, clean |-> FALSE]]
               /\ rlHist' = [rlHist EXCEPT ![u] = [h EXCEPT !.fault = TRUE]]
               /\ IF LimitedOnFailure
                    THEN /\ said' = Ended(t, "Too many messages", {}, FALSE,
                                          "none")
                         /\ UNCHANGED tasks
                    ELSE /\ tasks' = Spawn([t EXCEPT !.step = "findOne"])
                         /\ UNCHANGED said
               /\ UNCHANGED ratelimit
  /\ UNCHANGED <<connected, user, currentRoom, subscribed, presence, status,
                 participants, reply, now, hist, relayed, rest, chat, posted,
                 allowChat, inmem>>

\* isRateLimited has answered: the error event when it answered true,
\* otherwise Webinar.findOne is sent
AfterVerdict(t, limited) ==
  IF limited
    THEN /\ said' = Ended(t, "Too many messages", {}, FALSE, "none")
         /\ tasks' = Finish(t)
    ELSE /\ tasks' = Move(t, [Task("send", t.sock, t.room, "findOne") EXCEPT
                                !.data = t.data])
         /\ UNCHANGED said

\* incr answered: redis.expire when the answer is 1, otherwise the verdict
SendAfterIncr(t, ok) ==
  /\ t \in TasksAt({"send"}, "incr")
  /\ LET s == t.sock
         u == user[s]
         key == RATE_LIMIT_KEY(u, "chat")
     IN IF t.n = 1
          THEN IF ok
                 THEN /\ ratelimit' = [ratelimit EXCEPT ![key].expireAt =
                            IF ratelimit[key].count = 0 THEN NoTTL
                            ELSE now + ChatWindowSeconds]
                      /\ tasks' = Move(t, [t EXCEPT !.step = "expire"])
                      /\ rlHist' = [rlHist EXCEPT ![u].start =
                            IF @ = NoTTL THEN now ELSE @]
                      /\ UNCHANGED <<rlOut, said>>
                 ELSE /\ rlOut' = [rlOut EXCEPT ![s] =
                           [limited |-> LimitedOnFailure, failed |-> TRUE,
                            k |-> t.k, clean |-> FALSE]]
                      /\ rlHist' = [rlHist EXCEPT ![u].fault = TRUE]
                      /\ AfterVerdict(t, LimitedOnFailure)
                      /\ UNCHANGED ratelimit
          ELSE /\ ok
               /\ rlOut' = [rlOut EXCEPT ![s] =
                    [limited |-> OverLimit(t.n, ChatMaxRequests),
                     failed |-> FALSE, k |-> t.k, clean |-> t.clean]]
               /\ rlHist' = [rlHist EXCEPT ![u].refused =
                    @ \/ OverLimit(t.n, ChatMaxRequests)]
               /\ AfterVerdict(t, OverLimit(t.n, ChatMaxRequests))
               /\ UNCHANGED ratelimit
  /\ UNCHANGED <<connected, user, currentRoom, subscribed, presence, status,
                 participants, reply, now, events, hist, relayed, rest, chat,
                 posted, allowChat, inmem>>

\* expire answered: the verdict
SendAfterExpire(t) ==
  /\ t \in TasksAt({"send"}, "expire")
  /\ rlOut' = [rlOut EXCEPT ![t.sock] =
       [limited |-> OverLimit(t.n, ChatMaxRequests), failed |-> FALSE,
        k |-> t.k, clean |-> t.clean]]
  /\ rlHist' = [rlHist EXCEPT ![user[t.sock]].refused =
       @ \/ OverLimit(t.n, ChatMaxRequests)]
  /\ AfterVerdict(t, OverLimit(t.n, ChatMaxRequests))
  /\ UNCHANGED <<connected, user, currentRoom, subscribed, presence, status,
                 participants, reply, now, events, hist, ratelimit, relayed,
                 rest, chat, posted, allowChat, inmem>>

\* ------------------------------------------------------- send-reaction
ReactionMaxRequests == 20   \* isRateLimited(userId, 'reaction', 20, 60)
ReactionWindowSeconds == 60

\* webinar.settings.allowReactions, schema default
allowReactions(r) == TRUE

\* isRateLimited of handleSendReaction has answered: the error event when
\* it answered true, otherwise Webinar.findOne is sent
ReactAfterVerdict(t, limited) ==
  IF limited
    THEN /\ said' = Ended(t, "Too many reactions", {}, FALSE, "none")
         /\ tasks' = Finish(t)
    ELSE /\ tasks' = Move(t, [t EXCEPT !.step = "findOne"])
         /\ UNCHANGED said

\* handleSendReaction from the event to the sending of redis.incr by
\* isRateLimited; ok: the store executes the command.  When incr throws,
\* isRateLimited answers false and Webinar.findOne is sent.
SendReaction(s, ok, lim) ==
  /\ connected[s] = "open"
  /\ currentRoom[s] # NoRoom
  /\ Inflight < MaxInflight
  /\ events < lim
  /\ events' = events + 1
  /\ LET key == RATE_LIMIT_KEY(user[s], "reaction")
         t == Task("react", s, currentRoom[s], "incr")
     IN IF ok
          THEN /\ ratelimit' = [ratelimit EXCEPT ![key].count = @ + 1]
               /\ tasks' = Spawn([t EXCEPT !.n = ratelimit[key].count + 1])
               /\ UNCHANGED rlOut
          ELSE /\ rlOut' = [rlOut EXCEPT ![s] =
                    [NoAnswer EXCEPT !.limited = LimitedOnFailure,
                                     !.failed = TRUE]]
               /\ tasks' = Spawn([t EXCEPT !.step = "findOne"])
               /\ UNCHANGED ratelimit
  /\ UNCHANGED <<connected, user, currentRoom, subscribed, presence, status,
                 participants, reply, now, hist, rlHist, relayed, rest,
                 chatlog, inmem>>

\* incr answered: redis.expire when the answer is 1, otherwise the verdict
ReactAfterIncr(t, ok) ==
  /\ t \in TasksAt({"react"}, "incr")
  /\ LET s == t.sock
         key == RATE_LIMIT_KEY(user[s], "reaction")
         limited == OverLimit(t.n, ReactionMaxRequests)
     IN IF t.n = 1 /\ ok
          THEN /\ ratelimit' = [ratelimit EXCEPT ![key].expireAt =
                    IF ratelimit[key].count = 0 THEN NoTTL
                    ELSE now + ReactionWindowSeconds]
               /\ tasks' = Move(t, [t EXCEPT !.step = "expire"])
               /\ UNCHANGED <<rlOut, said>>
        ELSE IF t.n = 1
          THEN /\ rlOut' = [rlOut EXCEPT ![s] =
                    [NoAnswer EXCEPT !.limited = LimitedOnFailure,
                                     !.failed = TRUE]]
               /\ ReactAfterVerdict(t, LimitedOnFailure)
               /\ UNCHANGED ratelimit
        ELSE /\ ok
             /\ rlOut' = [rlOut EXCEPT ![s] = [NoAnswer EXCEPT !.limited = limited]]
             /\ ReactAfterVerdict(t, limited)
             /\ UNCHANGED ratelimit
  /\ UNCHANGED <<connected, user, currentRoom, subscribed, presence, status,
                 participants, reply, now, events, hist, rlHist, relayed, rest,
                 chat, posted, allowChat, inmem>>

\* expire answered: the verdict
ReactAfterExpire(t) ==
  /\ t \in TasksAt({"react"}, "expire")
  /\ rlOut' = [rlOut EXCEPT ![t.sock] =
       [NoAnswer EXCEPT !.limited = OverLimit(t.n, ReactionMaxRequests)]]
  /\ ReactAfterVerdict(t, OverLimit(t.n, ReactionMaxRequests))
  /\ UNCHANGED <<connected, user, currentRoom, subscribed, presence, status,
                 participants, reply, now, events, hist, ratelimit, rlHist,
                 relayed, rest, chat, posted, allowChat, inmem>>

\* findOne answered: the error event when the webinar does not allow
\* reactions, otherwise new-reaction to the others in the room; when
\* findOne throws, the catch logs it
ReactAfterFindOne(t, ok) ==
  /\ t \in TasksAt({"react"}, "findOne")
  /\ said' = IF ~ok THEN Ended(t, "none", {}, FALSE, "findOne")
             ELSE IF ~allowReactions(t.room)
               THEN Ended(t, "Reactions are disabled", {}, FALSE, "none")
             ELSE Ended(t, "none", RoomOf(t.room) \ {t.sock}, FALSE, "none")
  /\ tasks' = Finish(t)
  /\ UNCHANGED <<connected, user, currentRoom, subscribed, presence, status,
                 participants, reply, now, events, hist, ratelimit, rlOut,
                 rlHist, relayed, rest, chat, posted, allowChat, inmem>>

\* oks: {TRUE} when the store answers every command of isRateLimited,
\* BOOLEAN when one can throw; dbs: the same for Webinar.findOne; lim: the
\* events received in all
sendReaction(oks, dbs, lim) ==
  \/ \E s \in Sockets, ok \in oks : SendReaction(s, ok, lim)
  \/ \E t \in BagToSet(tasks), ok \in oks : ReactAfterIncr(t, ok)
  \/ \E t \in BagToSet(tasks) : ReactAfterExpire(t)
  \/ \E t \in BagToSet(tasks), ok \in dbs : ReactAfterFindOne(t, ok)

\* a handler that does not look at settings.allowChat
ChatOffNever(r) == FALSE

\* !webinar.settings.allowChat
ChatOff(r) == ~allowChat[r]

\* findOne answered, or it threw (ok false): the allowChat check, the
\* chatMessage with message.trim(), redis.lPush; pushed: the store executes
\* the lPush
SendAfterFindOne(t, ok, pushed) ==
  /\ t \in TasksAt({"send"}, "findOne")
  /\ LET r == t.room
         msg == ChatMessage(t.sock, t.data.message, now)
     IN IF ~ok
          THEN /\ said' = Caught(t, FALSE, "findOne")
               /\ tasks' = Finish(t)
               /\ UNCHANGED <<chat, posted>>
        ELSE IF ChatOff(r)
          THEN /\ said' = Ended(t, "Chat is disabled", {}, FALSE, "none")
               /\ tasks' = Finish(t)
               /\ UNCHANGED <<chat, posted>>
        ELSE IF t.data.has # "message"
          THEN /\ said' = Caught(t, FALSE, "trim")
               /\ tasks' = Finish(t)
               /\ UNCHANGED <<chat, posted>>
        ELSE IF ~pushed
          THEN /\ said' = Caught(t, FALSE, "lPush")
               /\ tasks' = Finish(t)
               /\ UNCHANGED <<chat, posted>>
        ELSE /\ chat' = [chat EXCEPT ![r] = lPush(@, msg)]
             /\ posted' = [posted EXCEPT ![r] = Append(@, msg)]
             /\ tasks' = Move(t, [t EXCEPT !.step = "lPush"])
             /\ UNCHANGED said
  /\ UNCHANGED <<connected, user, currentRoom, subscribed, presence, status,
                 participants, reply, now, events, hist, ratelimit, rlOut,
                 rlHist, relayed, rest, allowChat, inmem>>

\* lPush answered: redis.lTrim; ok: the store executes it
SendAfterLPush(t, ok) ==
  /\ t \in TasksAt({"send"}, "lPush")
  /\ IF ok
       THEN /\ chat' = [chat EXCEPT ![t.room] = lTrim(@, 0, ChatTrimStop)]
            /\ tasks' = Move(t, [t EXCEPT !.step = "lTrim"])
            /\ UNCHANGED said
       ELSE /\ said' = Caught(t, TRUE, "lTrim")
            /\ tasks' = Finish(t)
            /\ UNCHANGED chat
  /\ UNCHANGED <<connected, user, currentRoom, subscribed, presence, status,
                 participants, reply, now, events, hist, ratelimit, rlOut,
                 rlHist, relayed, rest, posted, allowChat, inmem>>

\* lTrim answered: new-message to the room
SendAfterLTrim(t) ==
  /\ t \in TasksAt({"send"}, "lTrim")
  /\ said' = Ended(t, "none", RoomOf(t.room), TRUE, "none")
  /\ tasks' = Finish(t)
  /\ UNCHANGED <<connected, user, currentRoom, subscribed, presence, status,
                 participants, reply, now, events, hist, ratelimit, rlOut,
                 rlHist, relayed, rest, chat, posted, allowChat, inmem>>

\* the key's expiry has come by the time t
Expired(key, t) == key.expireAt # NoTTL /\ key.expireAt <= t

\* d seconds pass, up to lim; Redis drops the keys whose expiry has come
\* (history: the count of grants ends with the key, and the grants older
\* than ChatWindowSeconds are forgotten)
Elapse(d, lim) ==
  /\ now + d <= lim
  /\ now' = now + d
  /\ ratelimit' = [k \in DOMAIN ratelimit |->
       IF Expired(ratelimit[k], now') THEN NoKey ELSE ratelimit[k]]
  /\ rlHist' = [u \in Users |->
       [rlHist[u] EXCEPT
          !.granted = IF Expired(ratelimit[RATE_LIMIT_KEY(u, "chat")], now')
                        THEN 0 ELSE @,
          !.grants = SelectSeq(@, LAMBDA x : x > now' - ChatWindowSeconds)]]
  /\ UNCHANGED <<connected, user, currentRoom, subscribed, presence, status,
                 participants, tasks, reply, events, hist, rlOut,
                 relayed, rest, chatlog, inmem>>

Sleep == Elapse(SleepSeconds, MaxSeconds)

\* datas: the payloads the clients send; oks: {TRUE} when the store answers
\* every command of isRateLimited, BOOLEAN when one can throw; dbs: the same
\* for Webinar.findOne, lPush and lTrim; lim: the events received in all
sendMessage(datas, oks, dbs, lim) ==
  \/ \E s \in Sockets, data \in datas, ok \in oks :
       events < lim /\ SendMessage(s, data, ok)
  \/ \E t \in BagToSet(tasks), ok \in oks : SendAfterIncr(t, ok)
  \/ \E t \in BagToSet(tasks) : SendAfterExpire(t)
  \/ \E t \in BagToSet(tasks), ok \in dbs, pushed \in dbs :
       SendAfterFindOne(t, ok, pushed)
  \/ \E t \in BagToSet(tasks), ok \in dbs : SendAfterLPush(t, ok)
  \/ \E t \in BagToSet(tasks) : SendAfterLTrim(t)

\* ------------------------------------------------------------ signaling
\* socket.to(`user:${targetUserId}`): the open sockets of the target user
\* (handleConnection joins each socket to its user's room), the sender's
\* own socket excepted
UserRoomExcept(target, s) ==
  {x \in Sockets : connected[x] = "open" /\ user[x] = target /\ x # s}

\* socket.to(`user:${targetUserId}`).emit(kind, {fromUserId: socket.user._id,
\* ...}): what is sent and to whom
Emitted(kind, s, target, claimed) ==
  [kind |-> kind, from |-> s, to |-> target,
   claimed |-> claimed, fromUserId |-> user[s],
   recipients |-> UserRoomExcept(target, s),
   notFound |-> FALSE,
   present |-> \E r \in Rooms :
     \E p \in RecordsOf(presence[r], target) :
       connected[p.socketId] = "open",
   absent |-> \A r \in Rooms : RecordsOf(presence[r], target) = {}]

\* handleOffer, handleAnswer, handleIceCandidate: the same relay for the
\* three kinds; claimed is a sender id the client put in its payload
Relay(kind, s, target, claimed) ==
  /\ connected[s] = "open"
  /\ relayed' = Emitted(kind, s, target, claimed)
  /\ UNCHANGED <<connected, user, currentRoom, subscribed, presence, status,
                 participants, tasks, reply, now, events, hist, ratelimit,
                 rlOut, rlHist, rest, chatlog, inmem>>

handleOffer(s, target, claimed) == Relay("offer", s, target, claimed)
handleAnswer(s, target, claimed) == Relay("answer", s, target, claimed)
handleIceCandidate(s, target, claimed) ==
  Relay("ice-candidate", s, target, claimed)

\* offer, answer or ice-candidate with no payload object: the handler is
\* not async and has no try, so the TypeError of its destructuring leaves
\* the listener uncaught and the uncaughtException handler of server.js
\* exits the process.  S: the connections the process serves, s among them
RelayWithoutPayload(kind, s) ==
  /\ connected[s] = "open"
  /\ \E S \in SUBSET {x \in Sockets : connected[x] = "open"} :
       /\ s \in S
       /\ connected' = [x \in Sockets |->
                          IF x \in S THEN "lost" ELSE connected[x]]
       /\ tasks' = [t \in {x \in DOMAIN tasks : x.sock \notin S} |-> tasks[t]]
  /\ UNCHANGED <<user, currentRoom, subscribed, presence, status, participants,
                 reply, now, events, hist, others>>

\* ------------------------------------------------ signaling, in order
\* The client emits a signaling event: the connection carries the events of
\* one client in the order emitted.
EmitSignal(s, kind, target) ==
  /\ connected[s] = "open"
  /\ events < MaxSignals
  /\ events' = events + 1
  /\ wire' = [wire EXCEPT ![s] =
       Append(@, [kind |-> kind, target |-> target, seq |-> events + 1])]
  /\ UNCHANGED <<connected, user, currentRoom, subscribed, presence, status,
                 participants, tasks, reply, now, hist, ratelimit, rlOut,
                 rlHist, relayed, inbox, lifecycle, cred, cmd, partLeft,
                 chatlog, inmem>>

\* the awaits of a relay handler before its emit with the lookups of
\* WebRTCHandler: two in handleOffer, one in the others
SignalAwaitsLookups(kind) == IF kind = "offer" THEN 2 ELSE 1

\* the awaits of handleOffer, handleAnswer, handleIceCandidate before their
\* emit: none, the handlers are not async
SignalAwaits(kind) == 0

\* a relay handler suspended with n awaits to go
RelayTask(s, e, n) ==
  [Task("relay", s, NoRoom, "await") EXCEPT !.env = e, !.n = n]

\* what the server can run next for the connection: the handler of the
\* first event on the wire, or a suspended relay handler of the connection
SignalJobs(s) ==
  (IF wire[s] = <<>> THEN {}
   ELSE {[env |-> Head(wire[s]), n |-> SignalAwaits(Head(wire[s]).kind) + 1,
          fresh |-> TRUE]})
  \cup {[env |-> t.env, n |-> t.n, fresh |-> FALSE] :
          t \in {x \in TasksAt({"relay"}, "await") : x.sock = s}}

\* the envelope is written to each recipient's connection, which delivers
\* in the order written
Delivered(in, e, s, to) ==
  [x \in Sockets |->
     IF x \in to
       THEN Append(in[x], [kind |-> e.kind, from |-> s, seq |-> e.seq])
       ELSE in[x]]

\* socket.io calls the handler of the connection's next event, which runs
\* to its emit or to its next await; or a suspended handler resumes
handleSignal(s) ==
  /\ connected[s] = "open"
  /\ \E j \in SignalJobs(s) :
       LET e == j.env
           without == IF j.fresh THEN tasks
                      ELSE tasks (-) SetToBag({RelayTask(s, e, j.n)})
       IN /\ wire' = IF j.fresh THEN [wire EXCEPT ![s] = Tail(@)] ELSE wire
          /\ IF j.n = 1
               THEN /\ tasks' = without
                    /\ relayed' = Emitted(e.kind, s, e.target, NoUser)
                    /\ inbox' = Delivered(inbox, e, s,
                                          UserRoomExcept(e.target, s))
               ELSE /\ tasks' = without (+) SetToBag({RelayTask(s, e, j.n - 1)})
                    /\ UNCHANGED <<relayed, inbox>>
  /\ UNCHANGED <<connected, user, currentRoom, subscribed, presence, status,
                 participants, reply, now, events, hist, ratelimit, rlOut,
                 rlHist, lifecycle, cred, cmd, partLeft,
                 chatlog, inmem>>

\* ------------------------------------------------------- specifications
\* the entries that joins of the connections of S at time 0 have pushed
RECURSIVE EntriesOf(_)
EntriesOf(S) ==
  IF S = {} THEN <<>>
  ELSE LET s == CHOOSE x \in S : TRUE
       IN Append(EntriesOf(S \ {s}), ParticipantEntry(UserOf[s], 0))

\* A webinar in state st to which the connections of `open` have
\* authenticated and which those of `inside` have joined; log: the chat
\* messages of the room so far, in the order posted; allow: its
\* settings.allowChat
InitLimited(open, inside, st, log, allow, keys, sends) ==
  /\ connected = [s \in Sockets |-> IF s \in open THEN "open" ELSE "new"]
  /\ user = [s \in Sockets |-> IF s \in open THEN UserOf[s] ELSE NoUser]
  /\ currentRoom = [s \in Sockets |-> IF s \in inside THEN "r1" ELSE NoRoom]
  /\ subscribed = [s \in Sockets |-> IF s \in inside THEN {"r1"} ELSE {}]
  /\ presence = [r \in Rooms |->
       IF r # "r1" THEN {} ELSE
       {PresenceRecord(UserOf[s], s, getUserRoleInWebinar(UserOf[s], r), 0,
                       FALSE, FALSE, FALSE, FALSE) : s \in inside}]
  /\ status = [r \in Rooms |-> st]
  /\ participants = [r \in Rooms |->
       IF r = "r1" THEN EntriesOf(inside) ELSE <<>>]
  /\ tasks = EmptyBag
  /\ reply = [s \in Sockets |-> IF s \in inside THEN "room-joined" ELSE "none"]
  /\ now = 0
  /\ events = 0
  /\ hist = [u \in Users |->
       IF \E s \in inside : UserOf[s] = u THEN "joined" ELSE "idle"]
  /\ ratelimit = keys
  /\ rlOut = [s \in Sockets |-> NoAnswer]
  /\ rlHist = sends
  /\ relayed = NoRelay
  /\ wire = [s \in Sockets |-> <<>>]
  /\ inbox = [s \in Sockets |-> <<>>]
  /\ res = [u \in Users |-> NoRes]
  /\ actualStartTime = [r \in Rooms |->
       IF st = "scheduled" THEN NoTime ELSE 0]
  /\ actualEndTime = [r \in Rooms |-> NoTime]
  /\ cred = [s \in Sockets |->
       IF s \in open THEN ValidHandshake ELSE NoHandshake]
  /\ cmd = NoCmd
  /\ partLeft = [s \in Sockets |-> NoneLeft]
  /\ chat = [r \in Rooms |-> lTrim(reverse(log), 0, ChatTrimStop)]
  /\ posted = [r \in Rooms |-> log]
  /\ said = NoSaid
  /\ allowChat = [r \in Rooms |-> allow]
  /\ ServerStarted

\* the same with no rate-limit key in the store
InitWith(open, inside, st, log, allow) ==
  InitLimited(open, inside, st, log, allow,
              [k \in Users \X RateActions |-> NoKey],
              [u \in Users |-> NoSends])

\* the same with no chat message so far and the schema's allowChat
InitRoom(open, inside, st) == InitWith(open, inside, st, <<>>, TRUE)

\* the webinar has been started
InitLive(open, inside) == InitRoom(open, inside, "live")

\* join-room events alone, on every connection
InitJoin == InitLive(Sockets, {})
NextJoin == Tick \/ handleJoinRoom(MaxJoinRace)
SpecJoin == InitJoin /\ [][NextJoin]_vars

\* joins, leaves, disconnects and presence updates of the host and of one
\* connection of u2
InitPresence == InitLive({"s1", "s2"}, {})
NextPresence ==
  \/ Tick
  \/ handleJoinRoom(MaxInflight)
  \/ \E s \in Sockets : handleLeaveRoom(s)
  \/ \E s \in Sockets : handleDisconnect(s)
  \/ leaveRoom({TRUE})
  \/ updateParticipantState
SpecPresence == InitPresence /\ [][NextPresence]_vars

\* send-message events of a participant who is in the room, with a store
\* that can fail any command of isRateLimited.  The host has switched the
\* chat off: isRateLimited counts the send before the handler looks at
\* allowChat, and then the handler ends.
InitChat == InitWith({"s2"}, {"s2"}, "live", <<>>, FALSE)
NextChat ==
  \/ Sleep
  \/ \E s \in Sockets, ok \in BOOLEAN : SendMessage(s, Message(<<"a">>), ok)
  \/ \E t \in BagToSet(tasks), ok \in BOOLEAN : SendAfterIncr(t, ok)
  \/ \E t \in BagToSet(tasks) : SendAfterExpire(t)
  \/ \E t \in BagToSet(tasks) : SendAfterFindOne(t, TRUE, TRUE)
SpecChat == InitChat /\ [][NextChat]_vars

\* send-message events of u2 across the end of a window, second by second,
\* with a store that answers every command.  u2 starts either with no key
\* or at the end of a spent window: its first send, 59 seconds ago, armed
\* the expiry that comes in one second, and nine more were counted just now
SpentKey == [count |-> ChatMaxRequests, expireAt |-> 1]
SpentSends ==
  [NoSends EXCEPT !.k = ChatMaxRequests, !.start = 1 - ChatWindowSeconds,
                  !.granted = ChatMaxRequests,
                  !.grants = <<1 - ChatWindowSeconds>> \o
                             [i \in 1..(ChatMaxRequests - 1) |-> 0]]
InitWindow ==
  \/ InitChat
  \/ InitLimited({"s2"}, {"s2"}, "live", <<>>, FALSE,
                 [k \in Users \X RateActions |->
                    IF k = <<"u2", "chat">> THEN SpentKey ELSE NoKey],
                 [u \in Users |-> IF u = "u2" THEN SpentSends ELSE NoSends])
NextWindow ==
  \/ Elapse(1, MaxClock)
  \/ \E s \in Sockets : SendMessage(s, Message(<<"a">>), TRUE)
  \/ \E t \in BagToSet(tasks) : SendAfterIncr(t, TRUE)
  \/ \E t \in BagToSet(tasks) : SendAfterExpire(t)
  \/ \E t \in BagToSet(tasks) : SendAfterFindOne(t, TRUE, TRUE)
SpecWindow == InitWindow /\ [][NextWindow]_vars

\* the host, u2 and u3, connected and in no room, each send join-room once,
\* for the live room or for a room that does not exist, and the database
\* or the store can fail any command the handler awaits
InitJoinOnce == InitLive({"s1", "s2", "s3"}, {})
FirstJoin(s) ==
  reply[s] = "none" /\ \A t \in BagToSet(tasks) : t.sock # s
NextJoinOnce ==
  \/ \E s \in Sockets, r \in RoomIds :
       FirstJoin(s) /\ JoinRoom(s, r, MaxInflight)
  \/ \E s \in Sockets, r \in RoomIds :
       FirstJoin(s) /\ JoinRoomThrows(s, r, MaxInflight)
  \/ \E t \in BagToSet(tasks) : JoinAfterSCard(t)
  \/ \E t \in BagToSet(tasks) : JoinAfterSAdd(t)
  \/ \E t \in BagToSet(tasks) : JoinAfterSave(t)
  \/ \E t \in BagToSet(tasks) : JoinAfterSMembers(t)
  \/ \E t \in BagToSet(tasks) : JoinSAddThrows(t)
  \/ \E t \in BagToSet(tasks) : JoinSaveThrows(t)
SpecJoinOnce == InitJoinOnce /\ [][NextJoinOnce]_vars

\* send-message and send-reaction events of u2 and u3, both in the room,
\* with a store that can fail any command of isRateLimited; u2 has used up
\* its chat messages of the window; MaxEvents events in all
InitLimits ==
  InitLimited({"s2", "s3"}, {"s2", "s3"}, "live", <<>>, TRUE,
              [k \in Users \X RateActions |->
                 IF k = <<"u2", "chat">> THEN SpentKey ELSE NoKey],
              [u \in Users |-> IF u = "u2" THEN SpentSends ELSE NoSends])
NextLimits ==
  \/ sendMessage({Message(<<"a">>)}, BOOLEAN, {TRUE}, MaxEvents)
  \/ sendReaction(BOOLEAN, {TRUE}, MaxEvents)
SpecLimits == InitLimits /\ [][NextLimits]_vars

\* two live webinars: u2 is in r1 and u3 in no room; both can send join-room
\* for r2, leave and disconnect
InitTwoRooms == InitLive({"s2", "s3"}, {"s2"})
NextTwoRooms ==
  \/ \E s \in Sockets : JoinRoom(s, "r2", MaxInflight)
  \/ \E t \in BagToSet(tasks) : JoinAfterSCard(t)
  \/ \E t \in BagToSet(tasks) : JoinAfterSAdd(t)
  \/ \E t \in BagToSet(tasks) : JoinAfterSave(t)
  \/ \E t \in BagToSet(tasks) : JoinAfterSMembers(t)
  \/ \E s \in Sockets : handleLeaveRoom(s)
  \/ \E s \in Sockets : handleDisconnect(s)
  \/ leaveRoom({TRUE})
SpecTwoRooms == InitTwoRooms /\ [][NextTwoRooms]_vars

\* signaling between u3 and u2, who is in the room on one connection and
\* can open a second one, with connections coming and going
InitSignal == InitLive({"s2", "s3"}, {"s2"})
NextSignal ==
  \/ \E s \in Sockets : Connect(s, ValidHandshake)
  \/ \E s \in Sockets : handleDisconnect(s)
  \/ leaveRoom({TRUE})
  \/ \E s \in Sockets, target \in Users, claimed \in ClaimedIds :
       \/ handleOffer(s, target, claimed)
       \/ handleAnswer(s, target, claimed)
       \/ handleIceCandidate(s, target, claimed)
SpecSignal == InitSignal /\ [][NextSignal]_vars

\* signaling events of u3 and u2 to each other and to the host, who is not
\* connected
InitOrder == InitLive({"s2", "s3"}, {"s2", "s3"})
NextOrder ==
  \/ \E s \in Sockets, kind \in SignalKinds, target \in Users :
       EmitSignal(s, kind, target)
  \/ \E s \in Sockets : handleSignal(s)
SpecOrder == InitOrder /\ [][NextOrder]_vars

\* start and end requests of every account, joins and leaves, from a
\* scheduled webinar
InitLifecycle == InitRoom({"s1", "s2", "s3"}, {}, "scheduled")
NextLifecycle ==
  \/ Tick
  \/ StartWebinar
  \/ EndWebinar
  \/ handleJoinRoom(MaxInflight)
  \/ \E s \in Sockets : handleLeaveRoom(s)
  \/ leaveRoom({TRUE})
SpecLifecycle == InitLifecycle /\ [][NextLifecycle]_vars

\* start and end requests of every account and joins of the host, from a
\* scheduled webinar
InitStartEnd == InitRoom({"s1"}, {}, "scheduled")
NextStartEnd ==
  \/ Tick
  \/ StartWebinar
  \/ EndWebinar
  \/ handleJoinRoom(MaxInflight)
SpecStartEnd == InitStartEnd /\ [][NextStartEnd]_vars

\* host commands of the host, of u2 and of u3, all three in the room
InitHost == InitLive({"s1", "s2", "s3"}, {"s1", "s2", "s3"})
NextHost == handleMuteParticipant \/ handleRemoveParticipant
SpecHost == InitHost /\ [][NextHost]_vars

\* handshakes of the host's client and of one client of u2, good and bad,
\* with the joins and the chat of those that were let in, MaxEvents events
\* in all
InitGateway == InitRoom({}, {}, "live")
NextGateway ==
  \/ \E s \in {"s1", "s2"}, h \in Handshakes : Connect(s, h)
  \/ handleJoinRoom(MaxInflight)
  \/ sendMessage({Message(<<"a">>)}, BOOLEAN, BOOLEAN, MaxEvents)
SpecGateway == InitGateway /\ [][NextGateway]_vars

\* leave-room events and disconnects of u2 and u3, both in the room
InitCleanup == InitLive({"s2", "s3"}, {"s2", "s3"})
NextCleanup ==
  \/ Tick
  \/ \E s \in Sockets : handleLeaveRoom(s)
  \/ \E s \in Sockets : handleDisconnect(s)
  \/ leaveRoom({TRUE})
SpecCleanup == InitCleanup /\ [][NextCleanup]_vars

\* disconnects of u2 and u3, both in the room, with a database that can
\* fail the webinar lookup or the save
InitDisconnect == InitLive({"s2", "s3"}, {"s2", "s3"})
NextDisconnect ==
  \/ Tick
  \/ \E s \in Sockets : handleDisconnect(s)
  \/ leaveRoom(BOOLEAN)
SpecDisconnect == InitDisconnect /\ [][NextDisconnect]_vars

\* u2 and u3, both in the room: connections close, or their process exits;
\* a handler that awaits the store resumes when the store answers
InitCrash == InitLive({"s2", "s3"}, {"s2", "s3"})
NextCrash ==
  \/ Tick
  \/ \E s \in Sockets : processExit(s)
  \/ \E s \in Sockets : handleDisconnect(s)
  \/ leaveRoom({TRUE})
SpecCrash == InitCrash /\ [][NextCrash]_vars /\ WF_vars(leaveRoom({TRUE}))

\* the messages of the chat scenarios: with white space around them, blank
Bodies == {<<"a">>, <<" ", "b", " ">>, <<" ">>}

\* send-message events of u2 and u3, both in the room; a database and a
\* store that can fail the calls of the handler after isRateLimited;
\* MaxEvents events in all
InitPosts == InitLive({"s2", "s3"}, {"s2", "s3"})
NextPosts ==
  \/ Tick
  \/ sendMessage({Message(m) : m \in Bodies}, {TRUE}, BOOLEAN, MaxEvents)
SpecPosts == InitPosts /\ [][NextPosts]_vars

\* the last k elements of l, all of them when it has fewer
Last(l, k) == SubSeq(l, Len(l) - Min(k, Len(l)) + 1, Len(l))

\* the limits history is asked with: 50 is the default of getChatHistory
HistoryLimits == {1, 3, 50, 100}

\* the messages of an earlier hour of the room, one short of a full list
OldLog ==
  [i \in 1..ChatTrimStop |->
     [userId |-> "u1", message |-> <<"a">>, timestamp |-> i - ChatTrimStop - 1]]

\* send-message events of u2 and u3, both in the room, whose chat list is
\* nearly full; MaxEvents events in all, within one second
InitChatLog == InitWith({"s2", "s3"}, {"s2", "s3"}, "live", OldLog, TRUE)
NextChatLog ==
  sendMessage({Message(<<"a">>), Message(<<"b">>), Message(<<"c">>)},
              {TRUE}, {TRUE}, MaxEvents)
SpecChatLog == InitChatLog /\ [][NextChatLog]_vars

\* send-message events in a room u2 is in, which the host and u3, who are
\* connected, can join; MaxEvents events in all
InitRoomChat == InitLive({"s1", "s2", "s3"}, {"s2"})
NextRoomChat ==
  \/ handleJoinRoom(MaxInflight)
  \/ sendMessage({Message(<<"a">>)}, {TRUE}, {TRUE}, MaxEvents)
SpecRoomChat == InitRoomChat /\ [][NextRoomChat]_vars

\* events with and without a payload object from u2 and u3, both in the
\* room; MaxEvents events in all
InitPayload == InitLive({"s2", "s3"}, {"s2", "s3"})
NextPayload ==
  \/ \E s \in Sockets : JoinWithoutPayload(s)
  \/ sendMessage({NoData, NoMessage, Message(<<"a">>)}, {TRUE}, {TRUE},
                 MaxEvents)
  \/ \E s \in Sockets, target \in Users : handleOffer(s, target, NoUser)
  \/ \E s \in Sockets, kind \in SignalKinds : RelayWithoutPayload(kind, s)
SpecPayload == InitPayload /\ [][NextPayload]_vars

\* ================================================================ claims
\* C1: in every reachable state no room holds more presence records than
\* its capacity, whatever the interleaving of join-room handlers.
C1_PresenceWithinCapacity ==
  \A r \in Rooms : Cardinality(presence[r]) <= MaxParticipants

\* C2: in every reachable state each room's presence set holds at most one
\* record per participant id.
C2_OneRecordPerParticipant ==
  \A r \in Rooms : \A p, q \in presence[r] : p.userId = q.userId => p = q

\* C3: a join by a participant who already has a presence record of
\* another connection is not answered "Room is full", and when its record
\* is added the room holds exactly that one record of the participant.
C3_RejoinReplacesStaleRecord ==
  [][\A r \in Rooms :
       /\ \A p \in presence'[r] \ presence[r] :
            (\E q \in presence[r] :
               q.userId = p.userId /\ q.socketId # p.socketId)
            => RecordsOf(presence'[r], p.userId) = {p}
       /\ \A s \in Sockets :
            (reply'[s] = "Room is full" /\ reply[s] # "Room is full")
            => \A q \in presence[r] :
                 ~(q.userId = user[s] /\ q.socketId # s)]_vars

\* C4: once a participant's leave, begun after a completed join and with no
\* join-room of the participant since, has completed, the roster of the
\* room does not contain the participant.
C4_LeftParticipantNotInRoster ==
  \A r \in Rooms : \A u \in Users :
    hist[u] = "left" => RecordsOf(getRoomParticipants(r), u) = {}

\* what one leaveRoom of user u can make of the members of a room
LeaveResults(members, u) ==
  {members \ {p} : p \in FindCandidates(members, u)}

\* C5: in every reachable state of the presence store, removing a
\* participant twice gives what removing the participant once gives, and
\* removing an absent participant changes nothing.
C5_LeaveIdempotent ==
  \A r \in Rooms : \A u \in Users :
    /\ \A m \in LeaveResults(presence[r], u) : LeaveResults(m, u) = {m}
    /\ RecordsOf(presence[r], u) = {}
         => LeaveResults(presence[r], u) = {presence[r]}

\* C6: an update whose participant had no record left in the room when the
\* update came to write (the participant left after the update's read)
\* changes nothing in the presence set.
C6_LateUpdateIsNoOp ==
  [][\A t \in TasksAt({"update"}, "sRem") :
       (CopiesIn(t, tasks') < CopiesIn(t, tasks) /\ ~t.present)
       => presence' = presence]_vars

\* C7: as long as the store has answered every command of the sender's
\* checks in the window, a send-message is refused as rate limited exactly
\* when it is the sender's 11th or later in the window; the first send
\* after the window has elapsed is the first of a new window.
C7_ChatRateLimit ==
  \A s \in Sockets :
    (rlOut[s].clean /\ ~rlOut[s].failed)
    => (rlOut[s].limited <=> rlOut[s].k > ChatMaxRequests)

\* a sender who was refused is answered "allowed" on its first send after
\* the window
C7_Witness ==
  \E s \in Sockets :
    /\ rlOut[s].clean /\ ~rlOut[s].failed
    /\ rlOut[s].k = 1 /\ ~rlOut[s].limited
    /\ rlHist[user[s]].refused
    /\ now >= ChatWindowSeconds

\* C8: a rate-limit check one of whose store commands (the increment or the
\* expiry) failed answers "allowed".
C8_FailOpen ==
  \A s \in Sockets : rlOut[s].failed => ~rlOut[s].limited

\* a check failed for a sender whose counter is over the limit
C8_Witness ==
  \E s \in Sockets :
    /\ rlOut[s].failed /\ ~rlOut[s].limited
    /\ ratelimit[<<user[s], "chat">>].count > ChatMaxRequests

\* C9: an envelope addressed to another participant who is present is
\* delivered exactly once, to a connection of that participant, with the
\* sender id of the sending connection.
C9_RelayDeliversOnce ==
  (relayed # NoRelay /\ relayed.present /\ relayed.to # user[relayed.from])
  => /\ Cardinality(relayed.recipients) = 1
     /\ \A x \in relayed.recipients : UserOf[x] = relayed.to
     /\ relayed.fromUserId = user[relayed.from]

\* C10: an envelope addressed to a participant with no presence record is
\* answered with TargetNotFound and delivered to nobody.
C10_TargetNotFound ==
  (relayed # NoRelay /\ relayed.absent)
  => (relayed.notFound /\ relayed.recipients = {})

\* C11: the envelopes a connection receives from one sending connection
\* arrive in the order the sender emitted them.
C11_RelayKeepsSenderOrder ==
  \A x \in Sockets : \A i, j \in DOMAIN inbox[x] :
    (i < j /\ inbox[x][i].from = inbox[x][j].from)
    => inbox[x][i].seq < inbox[x][j].seq

\* an offer and then an ICE candidate of one sender have been delivered
C11_Witness ==
  \E x \in Sockets :
    /\ Len(inbox[x]) >= 2
    /\ inbox[x][1].kind = "offer" /\ inbox[x][2].kind = "ice-candidate"
    /\ inbox[x][1].from = inbox[x][2].from

\* the suspended handler t runs its next step
Stepped(t) == CopiesIn(t, tasks') < CopiesIn(t, tasks)

\* C12: a start request of the host that read the state scheduled makes
\* the webinar live and records the start time, and only such a request is
\* answered Started; a request of another account is answered Forbidden, a
\* request of the host that read another state InvalidState, and neither
\* changes the webinar.
C12_StartByHostFromScheduled ==
  [][/\ \A t \in TasksAt({"start"}, "findById") : Stepped(t) =>
          IF t.req = HostOf[t.room] /\ t.st = "scheduled"
            THEN /\ status'[t.room] = "live"
                 /\ actualStartTime'[t.room] = now
            ELSE /\ res'[t.req] =
                      [kind |-> "start",
                       answer |-> IF t.req # HostOf[t.room]
                                    THEN "Forbidden" ELSE "InvalidState"]
                 /\ UNCHANGED <<status, actualStartTime, actualEndTime,
                                participants>>
     /\ \A t \in TasksAt({"start"}, "save") : Stepped(t) =>
          /\ res'[t.req] = [kind |-> "start", answer |-> "Started"]
          /\ t.req = HostOf[t.room] /\ t.st = "scheduled"
     /\ \A u \in Users :
          (res'[u] # res[u] /\ res'[u].answer = "Started")
          => \E t \in TasksAt({"start"}, "save") : Stepped(t) /\ t.req = u
    ]_vars

\* the host has started the webinar and another account's start was
\* refused
C12_Witness ==
  /\ status["r1"] = "live" /\ actualStartTime["r1"] # NoTime
  /\ res["u1"] = [kind |-> "start", answer |-> "Started"]
  /\ \E u \in Users : res[u] = [kind |-> "start", answer |-> "Forbidden"]

\* C13: only an end request of the host that read the state live ends the
\* webinar and is answered Ended; a request of another account is answered
\* Forbidden, a request of the host that read scheduled or ended
\* InvalidState, and neither changes the webinar or its participant
\* entries.
C13_EndByHostFromLive ==
  [][/\ \A t \in TasksAt({"end"}, "findById") : Stepped(t) =>
          IF t.req = HostOf[t.room] /\ t.st = "live"
            THEN TRUE
            ELSE /\ res'[t.req] =
                      [kind |-> "end",
                       answer |-> IF t.req # HostOf[t.room]
                                    THEN "Forbidden" ELSE "InvalidState"]
                 /\ UNCHANGED <<status, actualStartTime, actualEndTime,
                                participants>>
     /\ \A t \in TasksAt({"end"}, "save") : Stepped(t) =>
          /\ res'[t.req] = [kind |-> "end", answer |-> "Ended"]
          /\ t.req = HostOf[t.room] /\ t.st = "live"
     /\ \A u \in Users :
          (res'[u] # res[u] /\ res'[u].answer = "Ended")
          => \E t \in TasksAt({"end"}, "save") : Stepped(t) /\ t.req = u
     /\ \A r \in Rooms :
          (status'[r] = "ended" /\ status[r] # "ended")
          => \E t \in TasksAt({"end"}, "findById") :
               Stepped(t) /\ t.req = HostOf[r] /\ t.st = "live"
    ]_vars

\* an end of the host from scheduled was refused, with a participant entry
\* in the webinar
C13_Witness ==
  /\ status["r1"] = "scheduled"
  /\ participants["r1"] # <<>>
  /\ res["u1"] = [kind |-> "end", answer |-> "InvalidState"]

\* C14: no step takes a webinar from scheduled to ended, out of ended, or
\* from live back to scheduled.
C14_LifecycleOrder ==
  [][\A r \in Rooms :
       /\ status[r] = "scheduled" => status'[r] \in {"scheduled", "live"}
       /\ status[r] = "live" => status'[r] \in {"live", "ended"}
       /\ status[r] = "ended" => status'[r] = "ended"]_vars

\* C15: the step that ends a webinar leaves no participant entry of the
\* webinar without leftAt and duration, and leaves the entries that had a
\* leftAt as they were.
C15_EndClosesEveryEntry ==
  [][\A r \in Rooms :
       (status'[r] = "ended" /\ status[r] # "ended")
       => /\ \A i \in DOMAIN participants'[r] :
               /\ participants'[r][i].leftAt # NoTime
               /\ participants'[r][i].duration # NoTime
          /\ \A i \in DOMAIN participants[r] :
               participants[r][i].leftAt # NoTime
               => participants'[r][i] = participants[r][i]]_vars

\* C16: a presence record of a participant who is not the host is created
\* only while the webinar is live.
C16_NonHostJoinsOnlyLive ==
  [][\A r \in Rooms : \A p \in presence'[r] \ presence[r] :
       p.userId # HostOf[r] => status[r] = "live"]_vars

\* C17: a mute-participant or remove-participant of a connection whose
\* user is not the room's host emits an error to that connection and
\* nothing else, changes no presence record, and starts no update of the
\* presence set; only the host's commands reach the target or the room.
C17_HostOnlyCommands ==
  [][/\ (cmd' # cmd /\ user[cmd'.by] # HostOf[cmd'.room])
        => /\ cmd'.err = {cmd'.by}
           /\ cmd'.toTarget = {} /\ cmd'.toRoom = {}
           /\ presence' = presence
     /\ (cmd'.toTarget # {} \/ cmd'.toRoom # {})
        => user[cmd'.by] = HostOf[cmd'.room]
     /\ \A t \in BagToSet(tasks') :
          (t.kind = "update" /\ t.ev = "mute-participant")
          => user[t.sock] = HostOf[t.room]
    ]_vars

\* u2 asked to remove the host and was sent the error
C17_Witness ==
  /\ cmd.kind = "remove-participant"
  /\ cmd.by = "s2" /\ cmd.target = "u1"
  /\ cmd.err = {"s2"}

\* C18: a connection whose handshake had no token, a token that does not
\* verify, or a token of an unknown or inactive account (or whose account
\* lookup failed) is never open: it has no user, no room, no subscription,
\* no suspended handler, no presence record, no answer and no rate-limit
\* verdict, and an account none of whose connections was let in has no
\* rate-limit key.
C18_NoStateWithoutAuthentication ==
  /\ \A s \in Sockets :
       (cred[s].token # "signed" \/ cred[s].account # "active")
       => /\ connected[s] # "open"
          /\ user[s] = NoUser
          /\ currentRoom[s] = NoRoom
          /\ subscribed[s] = {}
          /\ \A t \in BagToSet(tasks) : t.sock # s
          /\ \A r \in Rooms : \A p \in presence[r] : p.socketId # s
          /\ reply[s] = "none"
          /\ rlOut[s] = NoAnswer
          /\ wire[s] = <<>>
  /\ \A u \in Users :
       (\A s \in Sockets : UserOf[s] = u
          => (cred[s].token # "signed" \/ cred[s].account # "active"))
       => /\ \A a \in RateActions : ratelimit[<<u, a>>] = NoKey
          /\ rlHist[u] = NoSends
          /\ \A r \in Rooms : RecordsOf(presence[r], u) = {}

\* the client of u2 was refused for an inactive account while the host was
\* let in, has joined and has sent a message
C18_Witness ==
  /\ cred["s2"] = [token |-> "signed", account |-> "inactive"]
  /\ connected["s2"] = "closed"
  /\ connected["s1"] = "open"
  /\ currentRoom["s1"] = "r1"
  /\ ratelimit[<<"u1", "chat">>].count > 0

\* C19: for one join of a connection, participant-left is broadcast at most
\* once by its leave-room handler and its disconnect handler together: once
\* a leave-room handler of the connection has broadcast it, the disconnect
\* handler does not broadcast it again.
C19_DisconnectAfterLeaveIsQuiet ==
  \A s \in Sockets :
    partLeft[s].leave >= 1 => partLeft[s].disconnect = 0

\* C20: when the disconnect handler of a connection that was in a room has
\* ended, whether or not the webinar lookup or the save threw, the room has
\* no presence record of the connection and participant-left has been
\* broadcast for it.
C20_DisconnectCompletes ==
  \A s \in Sockets :
    (/\ connected[s] = "closed"
     /\ \A t \in BagToSet(tasks) : t.sock # s)
    => /\ \A r \in Rooms : \A p \in presence[r] : p.socketId # s
       /\ partLeft[s].disconnect >= 1

\* C21: the presence record of a connection that vanished without its
\* disconnect handler running is eventually removed from the room's
\* presence set, without any client action.
C21_LostConnectionIsReaped ==
  \A s \in Sockets :
    (connected[s] = "lost")
      ~> (\A r \in Rooms : \A p \in presence[r] : p.socketId # s)

\* C22: a send-message handler whose write to the chat list threw (lPush or
\* lTrim) still sends new-message to the room and sends no error event to
\* the sender.
C22_BroadcastDespiteWriteFailure ==
  (said.threw \in {"lPush", "lTrim"})
  => (said.err = "none" /\ said.by \in said.to)

\* C26: a send-message whose message is empty after trimming, none of whose
\* calls threw, ends with an error event to the sender: the message is not
\* pushed onto the chat list and new-message is sent to nobody.
C26_BlankMessageRejected ==
  (/\ said.data.has = "message"
   /\ trim(said.data.message) = <<>>
   /\ said.threw = "none")
  => (said.err # "none" /\ ~said.stored /\ said.to = {})

\* C23: getChatHistory(room, limit) is the last `limit` messages pushed onto
\* the room's chat list (all of them when there are fewer), in the order
\* they were pushed, oldest first.
C23_HistoryMostRecentOldestFirst ==
  \A r \in Rooms : \A k \in HistoryLimits :
    getChatHistory(r, k) = Last(posted[r], k)

\* a, b and c have been posted in that order onto a nearly full list, and
\* the history of 3 is a, b, c
C23_Witness ==
  \E r \in Rooms :
    /\ tasks = EmptyBag
    /\ Len(posted[r]) = ChatTrimStop + 3
    /\ [i \in 1..3 |-> getChatHistory(r, 3)[i].message]
         = <<(<<"a">>), (<<"b">>), (<<"c">>)>>

\* C24: the chat list of a room holds at most the 100 messages lTrim keeps,
\* and one more for every handler that has pushed and not yet trimmed; what
\* it holds is always the most recent messages pushed, newest first, so the
\* messages dropped are the oldest.
C24_LogBoundedOldestDropped ==
  \A r \in Rooms :
    /\ Len(chat[r]) <= ChatTrimStop + 1
                        + BagCardinality([t \in TasksAt({"send"}, "lPush")
                                            |-> tasks[t]])
    /\ chat[r] = reverse(Last(posted[r], Len(chat[r])))

\* more messages have been posted than the list keeps, by both connections,
\* and every handler has ended
C24_Witness ==
  \E r \in Rooms :
    /\ tasks = EmptyBag
    /\ Len(posted[r]) > ChatTrimStop + 1
    /\ Len(chat[r]) = ChatTrimStop + 1
    /\ chat[r][1].userId # chat[r][2].userId

C28_MalformedPayloadIsNotFatal ==
  \A s \in Sockets : connected[s] # "lost"

\* C29: the rate limiter is a fixed-window counter: of the sends counted on
\* one key, from its creation to its expiry, at most ChatMaxRequests are let
\* through, and of the sends counted in any span of ChatWindowSeconds at
\* most twice as many.
C29_FixedWindowCounter ==
  \A u \in Users :
    /\ rlHist[u].granted <= ChatMaxRequests
    /\ Len(rlHist[u].grants) <= 2 * ChatMaxRequests
    /\ \A i \in DOMAIN rlHist[u].grants :
         /\ rlHist[u].grants[i] <= now
         /\ rlHist[u].grants[i] > now - ChatWindowSeconds

\* u2 is refused in a window that follows a spent one: more than
\* ChatMaxRequests of its sends of the last ChatWindowSeconds were let
\* through, ChatMaxRequests of them on the new key
C29_Witness ==
  /\ rlOut["s2"].limited /\ ~rlOut["s2"].failed
  /\ rlHist["u2"].granted = ChatMaxRequests
  /\ Len(rlHist["u2"].grants) > ChatMaxRequests
  /\ ratelimit[<<"u2", "chat">>].expireAt > ChatWindowSeconds
  /\ tasks = EmptyBag

\* C30: a connection whose join-room has been answered with an error is
\* as it was before the event: it is not subscribed to the room, it has no
\* current room, the room has no presence record of it and the webinar no
\* attendance entry of its user (each connection joins once, from no room).
C30_FailedJoinLeavesNoState ==
  \A s \in Sockets :
    reply[s] \in JoinErrors =>
      /\ subscribed[s] = {}
      /\ currentRoom[s] = NoRoom
      /\ \A r \in Rooms :
           /\ \A p \in presence[r] : p.socketId # s
           /\ \A i \in DOMAIN participants[r] :
                participants[r][i].user # user[s]

\* C31: a connection has presence records in no room but its current room
\* and is subscribed to no room but its current room.
C31_PresenceOnlyInCurrentRoom ==
  \A s \in Sockets :
    /\ \A r \in Rooms :
         (\E p \in presence[r] : p.socketId = s) => currentRoom[s] = r
    /\ subscribed[s] \subseteq {currentRoom[s]}

\* the suspended request t writes the webinar in this step: it goes on to
\* wait for its save
Saves(t) ==
  /\ Stepped(t)
  /\ CopiesIn([t EXCEPT !.step = "save"], tasks')
       > CopiesIn([t EXCEPT !.step = "save"], tasks)

\* C32: of the start requests for a webinar only one writes it, so that the
\* start time is set once and one request is answered Started: a start
\* request writes only a stored webinar without a start time.  Likewise an
\* end request writes only a stored webinar without an end time.
C32_StartAndEndWriteOnce ==
  [][/\ \A t \in TasksAt({"start"}, "findById") :
          Saves(t) => actualStartTime[t.room] = NoTime
     /\ \A t \in TasksAt({"end"}, "findById") :
          Saves(t) => actualEndTime[t.room] = NoTime
    ]_vars

\* C33: a rate-limit counter in the store has an expiry, once the checks
\* of its subject that are under way have ended.
C33_EveryCounterExpires ==
  \A key \in DOMAIN ratelimit :
    (/\ ratelimit[key].count > 0
     /\ \A t \in BagToSet(tasks) : user[t.sock] # key[1])
    => ratelimit[key].expireAt # NoTTL

\* the action a handler has checked
ActionOf(kind) ==
  IF kind = "send" THEN "chat" ELSE IF kind = "react" THEN "reaction"
  ELSE "none"

\* C34: the counter of a subject and an action is changed only by a
\* rate-limit check of that subject for that action, and a message or a
\* reaction is refused as too many only when the sender's own counter for
\* that action is over its limit.
C34_CountersAreIndependent ==
  [][/\ \A k \in DOMAIN ratelimit :
          ratelimit'[k] # ratelimit[k] =>
            \/ \E t \in BagToSet(tasks') :
                 /\ CopiesIn(t, tasks') > CopiesIn(t, tasks)
                 /\ t.step = "incr"
                 /\ user[t.sock] = k[1] /\ ActionOf(t.kind) = k[2]
            \/ \E t \in BagToSet(tasks) :
                 /\ Stepped(t) /\ t.step = "incr"
                 /\ user[t.sock] = k[1] /\ ActionOf(t.kind) = k[2]
     /\ (said' # said /\ said'.err = "Too many messages")
        => ratelimit[<<user[said'.by], "chat">>].count > ChatMaxRequests
     /\ (said' # said /\ said'.err = "Too many reactions")
        => ratelimit[<<user[said'.by], "reaction">>].count
             > ReactionMaxRequests
    ]_vars

\* u2, whose chat counter is over the limit, has had a reaction passed on
\* to u3, and a message of u3 has been stored, each counted once
C34_Witness ==
  /\ ratelimit[<<"u2", "chat">>].count > ChatMaxRequests
  /\ rlOut["s2"].limited
  /\ ratelimit[<<"u2", "reaction">>].count = 1
  /\ said.by = "s2" /\ said.err = "none" /\ ~said.stored
  /\ said.to = {"s3"}
  /\ ratelimit[<<"u3", "chat">>].count = 1
  /\ ratelimit[<<"u3", "reaction">>].count = 0
  /\ \E i \in DOMAIN posted["r1"] : posted["r1"][i].userId = "u3"


\* ---------------------------------------- the handlers of server.js (584)
\* everything but the in-memory state, the connections and the event count
wired == <<currentRoom, presence, status, participants, tasks, reply, now,
           hist, user, ratelimit, rlOut, rlHist, relayed, signal, lifecycle,
           chatlog, cred, cmd, partLeft>>

\* an exception that leaves a listener with no try around it ends the
\* process: every connection is lost and the module's state is gone
Uncaught ==
  /\ connected' = [s \in Sockets |-> "lost"]
  /\ subscribed' = [s \in Sockets |-> {}]
  /\ currentParticipant' = Undeclared
  /\ currentWebinar' = Undeclared
  /\ webinars' = [r \in Rooms |-> Webinar]
  /\ participantMap' = [u \in Users |-> NoParticipant]

\* Webinar.addParticipant refuses when the webinar is full
AtCapacity(r) == Cardinality(webinars[r].participants) >= MaxParticipants

\* join-webinar: the webinar is in the Map.  The Participant of the user is
\* created or gets this socket's id, the user is added to the webinar, and
\* the two names are assigned: they are the same two for every connection.
\* The await that follows changes nothing here.
joinWebinar(s, webinarId) ==
  /\ connected[s] = "open"
  /\ events < MaxEvents
  /\ events' = events + 1
  /\ LET participantId == user[s]
         participant ==
           IF participantMap[participantId] = NoParticipant
           THEN Participant(participantId, s)
           ELSE [participantMap[participantId] EXCEPT !.socketId = s]
     IN IF AtCapacity(webinarId)
        THEN /\ participantMap' =
                  [participantMap EXCEPT ![participantId] = participant]
             /\ UNCHANGED <<currentParticipant, currentWebinar, webinars,
                            subscribed>>
        ELSE /\ participantMap' =
                  [participantMap EXCEPT ![participantId] =
                     [participant EXCEPT !.currentWebinar = webinarId]]
             /\ webinars' =
                  [webinars EXCEPT ![webinarId].participants =
                     @ \cup {participantId}]
             /\ currentParticipant' = participantId
             /\ currentWebinar' = webinarId
             /\ subscribed' = [subscribed EXCEPT ![s] = @ \cup {webinarId}]
  /\ UNCHANGED <<connected, wired>>

\* toggle-audio: the flag of the Participant object currentParticipant
\* names, which is in the Map unless a disconnect deleted it
toggleAudio(s, enabled) ==
  /\ connected[s] = "open"
  /\ events < MaxEvents
  /\ events' = events + 1
  /\ IF currentParticipant = Undeclared
     THEN Uncaught
     ELSE /\ participantMap' =
               IF participantMap[currentParticipant] = NoParticipant
               THEN participantMap
               ELSE [participantMap EXCEPT
                       ![currentParticipant].isAudioEnabled = enabled]
          /\ UNCHANGED <<connected, subscribed, currentParticipant,
                         currentWebinar, webinars>>
  /\ UNCHANGED wired

\* disconnect: removes the participant currentParticipant names from the
\* webinar currentWebinar names and from the Map
disconnect(s) ==
  /\ connected[s] = "open"
  /\ events < MaxEvents
  /\ events' = events + 1
  /\ IF currentParticipant = Undeclared
     THEN Uncaught
     ELSE /\ connected' = [connected EXCEPT ![s] = "closed"]
          /\ subscribed' = [subscribed EXCEPT ![s] = {}]
          /\ webinars' =
               [webinars EXCEPT ![currentWebinar].participants =
                  @ \ {currentParticipant}]
          /\ participantMap' =
               [participantMap EXCEPT ![currentParticipant] = NoParticipant]
          /\ UNCHANGED <<currentParticipant, currentWebinar>>
  /\ UNCHANGED wired

\* three authenticated connections and no join-webinar so far
InitServer ==
  /\ InitLive({"s1", "s2", "s3"}, {})
NextServer ==
  \/ \E s \in Sockets, r \in Rooms : joinWebinar(s, r)
  \/ \E s \in Sockets, enabled \in BOOLEAN : toggleAudio(s, enabled)
  \/ \E s \in Sockets : disconnect(s)
SpecServer == InitServer /\ [][NextServer]_vars

\* the participant of every user but the sender's is as it was, in the Map
\* and in every webinar
OnlyOwn(s) ==
  \A u \in Users \ {user[s]} :
    /\ participantMap'[u] = participantMap[u]
    /\ \A r \in Rooms :
         (u \in webinars'[r].participants) = (u \in webinars[r].participants)

\* C35: the disconnect or toggle-audio of a connection that has joined a
\* webinar changes or removes only the participant of that connection's
\* user, never the participant of another connection
C35_EventsActOnOwnSession ==
  [][\A s \in Sockets :
       ((disconnect(s) \/ (\E enabled \in BOOLEAN : toggleAudio(s, enabled)))
          /\ subscribed[s] # {})
       => OnlyOwn(s)]_vars


\* audio, hand and mute events of three connections that are in the room
OwnerKinds == {"toggle-audio", "raise-hand", "mute-participant"}
InitOwner == InitLive({"s1", "s2", "s3"}, {"s1", "s2", "s3"})
NextOwner ==
  \/ \E s \in Sockets, kind \in OwnerKinds, val \in BOOLEAN,
          target \in Users : UpdateEvent(s, kind, val, target)
  \/ \E t \in BagToSet(tasks) : UpdateAfterSMembers(t)
  \/ \E t \in BagToSet(tasks) : UpdateAfterSRem(t)
SpecOwner == InitOwner /\ [][NextOwner]_vars

\* the media and hand-raise fields of a presence record
MediaOf(p) ==
  <<p.audioEnabled, p.videoEnabled, p.screenSharing, p.handRaised>>

\* C36: when a handler writes back a presence record of a participant
\* other than its connection's user, the record's media and hand-raise
\* fields are those of the record it replaces
C36_OnlyOwnerChangesRecord ==
  [][\A t \in TasksAt({"update"}, "sRem") :
       (UpdateAfterSRem(t) /\ t.put.userId # user[t.sock])
       => MediaOf(t.put) = MediaOf(t.seen)]_vars

\* C36 amended: a handler writes back a presence record of a participant
\* other than its connection's user only for a mute-participant of the
\* room's host, and the record then differs from the one it replaces in
\* audioEnabled = false alone; every other event writes the sender's own
\* record
C36_OnlyOwnerOrHostMute ==
  [][\A t \in TasksAt({"update"}, "sRem") :
       (UpdateAfterSRem(t) /\ t.put.userId # user[t.sock])
       => /\ t.ev = "mute-participant"
          /\ user[t.sock] = HostOf[t.room]
          /\ t.put = [t.seen EXCEPT !.audioEnabled = FALSE]]_vars

\* u3 has raised its own hand, u2 has turned its audio on, and the host's
\* mute-participant has removed u2's record to write it back muted
C36_Witness ==
  /\ \E p \in RecordsOf(presence["r1"], "u3") : p.handRaised
  /\ \E t \in TasksAt({"update"}, "sRem") :
       /\ t.ev = "mute-participant" /\ t.sock = "s1"
       /\ t.seen.userId = "u2" /\ t.seen.audioEnabled
       /\ ~t.put.audioEnabled


\* start-screen-share in two rooms: r1, where the setting is off, and r2,
\* where it is on and which the connections join first
InitShare == InitLive({"s1", "s2", "s3"}, {"s1", "s2"})
NextShare ==
  \/ \E s \in Sockets : JoinRoom(s, "r2", MaxInflight)
  \/ \E t \in BagToSet(tasks) : JoinAfterSCard(t)
  \/ \E t \in BagToSet(tasks) : JoinAfterSAdd(t)
  \/ \E t \in BagToSet(tasks) : JoinAfterSave(t)
  \/ \E t \in BagToSet(tasks) : JoinAfterSMembers(t)
  \/ \E s \in Sockets : UpdateEvent(s, "start-screen-share", FALSE, user[s])
  \/ \E t \in BagToSet(tasks) : UpdateAfterSMembers(t)
  \/ \E t \in BagToSet(tasks) : UpdateAfterSRem(t)
SpecShare == InitShare /\ [][NextShare]_vars

\* C37: a start-screen-share of a connection that is not the host's, in a
\* room whose settings do not allow screen sharing, sends that connection
\* an error and nothing to the room, changes no presence record and starts
\* no update; every other start-screen-share starts no error, and when its
\* update has written the sender's record, that record has screenSharing
\* = true and the rest of the room is sent screen-share-started
C37_ScreenSharePermission ==
  [][/\ (events' = events + 1 /\ cmd' # cmd
           /\ cmd'.kind = "start-screen-share")
        => IF user[cmd'.by] # HostOf[cmd'.room]
                /\ ~allowScreenShare(cmd'.room)
             THEN /\ cmd'.err = {cmd'.by} /\ cmd'.toRoom = {}
                  /\ presence' = presence
                  /\ tasks' = tasks
             ELSE cmd'.err = {}
     /\ \A t \in TasksAt({"update"}, "sRem") :
          (t.ev = "start-screen-share" /\ Stepped(t))
          => /\ user[t.sock] = HostOf[t.room] \/ allowScreenShare(t.room)
             /\ \E p \in RecordsOf(presence'[t.room], user[t.sock]) :
                  p.screenSharing
             /\ cmd'.kind = "start-screen-share" /\ cmd'.by = t.sock
             /\ cmd'.err = {}
             /\ cmd'.toRoom = RoomExcept(t.room, t.sock)
    ]_vars

\* u3, who is not the host, has started a screen share in r2: its record
\* says so and the host's connection, also in r2, was told
C37_Witness ==
  /\ cmd.kind = "start-screen-share" /\ cmd.by = "s3" /\ cmd.room = "r2"
  /\ cmd.err = {} /\ "s1" \in cmd.toRoom
  /\ \E p \in RecordsOf(presence["r2"], "u3") : p.screenSharing


\* the connections that are in the room
InRoom(r) == {s \in Sockets : currentRoom[s] = r}

\* C38: with no join or leave, once the presence updates have ended the
\* room has as many records as before, one for each connection in it, also
\* when two updates of the same participant ran concurrently
C38_UpdateKeepsRecordCount ==
  \A r \in Rooms :
    tasks = EmptyBag => Cardinality(presence[r]) = Cardinality(InRoom(r))


\* C39: once the host's remove-participant of another participant has been
\* carried out, the target has no record in the room's presence set, which is the roster a
\* later joiner is sent
C39_RemovedTargetLeavesRoster ==
  (/\ cmd.kind = "remove-participant"
   /\ user[cmd.by] = HostOf[cmd.room]
   /\ cmd.target # user[cmd.by]
   /\ cmd.err = {})
  => RecordsOf(getRoomParticipants(cmd.room), cmd.target) = {}

====
